---- MODULE Spec2Model ----
(***************************************************************************)
(* The scan request gateway of aegis-ai-security-scanner: the /api/scan    *)
(* serverless handler in its two provider variants,                        *)
(*   "claude"  src/api/scan.ts        (instructed-JSON variant)            *)
(*   "gemini"  src/unnamed/part_000   (schema-enforced variant)            *)
(* with the in-memory rate limiter, the body validator, the credential     *)
(* check and the mapping of upstream outcomes to HTTP responses.           *)
(*                                                                         *)
(* JavaScript values are records tagged by t (their typeof, with "null"    *)
(* apart).  A target string is represented by its length, the only thing   *)
(* of it the validator reads.  Header values are sequences of characters,  *)
(* so that split(',')[0].trim() is computed rather than assumed.           *)
(***************************************************************************)
EXTENDS Integers, Sequences, FiniteSets, TLC

VARIABLES
    provider,   \* which of the two handler files is deployed
    rateMap,    \* the module-level Map: identity -> [count, resetAt]
    now,        \* Date.now(), in ms since the start of the model's run
    monitor,    \* observer: per identity, the current window and the admissions in it
    last,       \* observer: the last request handled and the response sent
    pending,    \* the requests suspended at the await of fetch, in order of arrival
    vin,        \* harness of the pure functions: the inputs under comparison
    vout        \* harness of the pure functions: the result for each input

vars == <<provider, rateMap, now, monitor, last, pending, vin, vout>>

Providers == {"claude", "gemini"}

(***************************************************************************)
(* Program constants                                                       *)
(***************************************************************************)
RATE_LIMIT == 10
WINDOW_MS == 900000
MAX_TARGET_LENGTH == 50000
THINKING_BUDGET == 16000
VALID_TYPES == {"CODE", "WEB_APP", "NETWORK"}

(***************************************************************************)
(* Bounds of the model                                                     *)
(***************************************************************************)
MaxWindows == 1     \* whole-window clock steps taken
MaxFine == 1        \* 1 ms clock steps taken inside a window
MaxFindings == 3    \* findings in an upstream array, every mix of kinds
ManyFindings == 100 \* findings in one long upstream array
MaxInflight == 2    \* requests suspended at the await of fetch at one time
MaxRefFindings == 5 \* findings in an upstream array with references
MaxGrounding == 2   \* grounding URLs of an upstream answer
MaxChunks == 4      \* pieces an upstream text is put together from

(***************************************************************************)
(* JavaScript values                                                       *)
(***************************************************************************)
Undefined == [t |-> "undefined"]
JsNull == [t |-> "null"]
JsNum(n) == [t |-> "number", n |-> n]
JsStr(s) == [t |-> "string", s |-> s]
JsText(n) == [t |-> "string", len |-> n]
JsObj == [t |-> "object"]
JsBool(b) == [t |-> "boolean", b |-> b]

\* typeof v === 'string'
IsString(v) == v.t = "string"

\* !!v for the values above
Truthy(v) ==
    CASE v.t = "undefined" -> FALSE
      [] v.t = "null" -> FALSE
      [] v.t = "number" -> v.n # 0
      [] v.t = "boolean" -> v.b
      [] v.t = "string" -> IF "len" \in DOMAIN v THEN v.len > 0 ELSE v.s # ""
      [] OTHER -> TRUE

\* body?.target and body.targetType: a property read of a non-object is undefined
Prop(body, name) ==
    IF body.t = "object" /\ name \in DOMAIN body THEN body[name] ELSE Undefined

Body(target, targetType) ==
    [t |-> "object", target |-> target, targetType |-> targetType]

\* a body with its settings property
Settings(autoRemediation) == [t |-> "object", autoRemediation |-> autoRemediation]

ScanBody(target, targetType, settings) ==
    [t |-> "object", target |-> target, targetType |-> targetType, settings |-> settings]

\* settings?.autoRemediation !== false
AutoRem(body) == Prop(Prop(body, "settings"), "autoRemediation") # JsBool(FALSE)

\* settings with both toggles
ScanSettings(autoRemediation, deepThinking) ==
    [t |-> "object", autoRemediation |-> autoRemediation, deepThinking |-> deepThinking]

\* settings?.deepThinking !== false
DeepThinking(body) == Prop(Prop(body, "settings"), "deepThinking") # JsBool(FALSE)

(***************************************************************************)
(* Rate limiter                                                            *)
(***************************************************************************)
EmptyMap == [k \in {} |-> [count |-> 0, resetAt |-> 0]]

MapSet(m, k, v) == [x \in DOMAIN m \cup {k} |-> IF x = k THEN v ELSE m[x]]

\* A variant of checkRate with the limit test off by one (count > RATE_LIMIT).
checkRateOffByOne(m, ip, t) ==
    IF ip \notin DOMAIN m \/ t > m[ip].resetAt
    THEN [ok |-> TRUE, map |-> MapSet(m, ip, [count |-> 1, resetAt |-> t + WINDOW_MS])]
    ELSE IF m[ip].count > RATE_LIMIT
         THEN [ok |-> FALSE, map |-> m]
         ELSE [ok |-> TRUE, map |-> MapSet(m, ip, [m[ip] EXCEPT !.count = @ + 1])]

\* A variant of checkRate that replaces the window already at now = resetAt.
checkRateEarlyReset(m, ip, t) ==
    IF ip \notin DOMAIN m \/ t >= m[ip].resetAt
    THEN [ok |-> TRUE, map |-> MapSet(m, ip, [count |-> 1, resetAt |-> t + WINDOW_MS])]
    ELSE IF m[ip].count >= RATE_LIMIT
         THEN [ok |-> FALSE, map |-> m]
         ELSE [ok |-> TRUE, map |-> MapSet(m, ip, [m[ip] EXCEPT !.count = @ + 1])]

\* A variant of checkRate that starts a new window for every identity at once.
checkRateSharedReset(m, ip, t) ==
    IF ip \notin DOMAIN m \/ t > m[ip].resetAt
    THEN [ok |-> TRUE,
          map |-> [x \in DOMAIN m \cup {ip} |-> [count |-> 1, resetAt |-> t + WINDOW_MS]]]
    ELSE IF m[ip].count >= RATE_LIMIT
         THEN [ok |-> FALSE, map |-> m]
         ELSE [ok |-> TRUE, map |-> MapSet(m, ip, [m[ip] EXCEPT !.count = @ + 1])]

\* A variant of checkRate whose rejection starts the window again.
checkRateExtend(m, ip, t) ==
    IF ip \notin DOMAIN m \/ t > m[ip].resetAt
    THEN [ok |-> TRUE, map |-> MapSet(m, ip, [count |-> 1, resetAt |-> t + WINDOW_MS])]
    ELSE IF m[ip].count >= RATE_LIMIT
         THEN [ok |-> FALSE, map |-> MapSet(m, ip, [m[ip] EXCEPT !.resetAt = t + WINDOW_MS])]
         ELSE [ok |-> TRUE, map |-> MapSet(m, ip, [m[ip] EXCEPT !.count = @ + 1])]

\* A variant of checkRate that admits inside a window without writing the
\* incremented count back (a check and an increment that are not one step).
checkRateLostUpdate(m, ip, t) ==
    IF ip \notin DOMAIN m \/ t > m[ip].resetAt
    THEN [ok |-> TRUE, map |-> MapSet(m, ip, [count |-> 1, resetAt |-> t + WINDOW_MS])]
    ELSE IF m[ip].count >= RATE_LIMIT
         THEN [ok |-> FALSE, map |-> m]
         ELSE [ok |-> TRUE, map |-> m]

\* A variant of checkRate that, opening a window, drops the entries of the
\* other identities whose window has elapsed.
checkRateEvict(m, ip, t) ==
    IF ip \notin DOMAIN m \/ t > m[ip].resetAt
    THEN [ok |-> TRUE,
          map |-> [x \in {k \in DOMAIN m : t <= m[k].resetAt} \cup {ip} |->
                      IF x = ip THEN [count |-> 1, resetAt |-> t + WINDOW_MS] ELSE m[x]]]
    ELSE IF m[ip].count >= RATE_LIMIT
         THEN [ok |-> FALSE, map |-> m]
         ELSE [ok |-> TRUE, map |-> MapSet(m, ip, [m[ip] EXCEPT !.count = @ + 1])]

\* A sliding window: every admission moves the end of the window.
checkRateSliding(m, ip, t) ==
    IF ip \notin DOMAIN m \/ t > m[ip].resetAt
    THEN [ok |-> TRUE, map |-> MapSet(m, ip, [count |-> 1, resetAt |-> t + WINDOW_MS])]
    ELSE IF m[ip].count >= RATE_LIMIT
         THEN [ok |-> FALSE, map |-> m]
         ELSE [ok |-> TRUE,
               map |-> MapSet(m, ip, [count |-> m[ip].count + 1, resetAt |-> t + WINDOW_MS])]

\* checkRate(ip) at Date.now() = t on the map m: the result and the map after it.
checkRate(m, ip, t) ==
    IF ip \notin DOMAIN m \/ t > m[ip].resetAt
    THEN [ok |-> TRUE, map |-> MapSet(m, ip, [count |-> 1, resetAt |-> t + WINDOW_MS])]
    ELSE IF m[ip].count >= RATE_LIMIT
         THEN [ok |-> FALSE, map |-> m]
         ELSE [ok |-> TRUE, map |-> MapSet(m, ip, [m[ip] EXCEPT !.count = @ + 1])]

(***************************************************************************)
(* Caller identity                                                         *)
(***************************************************************************)
Unknown == <<"u", "n", "k", "n", "o", "w", "n">>

NoHeader == [present |-> FALSE, chars |-> <<>>]
Header(cs) == [present |-> TRUE, chars |-> cs]

IsSpace(c) == c \in {" ", "\t", "\n", "\r"}

SetMin(S) == CHOOSE x \in S : \A y \in S : x <= y
SetMax(S) == CHOOSE x \in S : \A y \in S : x >= y

\* s.split(',')[0]
SplitFirst(s) ==
    LET commas == {i \in 1..Len(s) : s[i] = ","}
    IN IF commas = {} THEN s ELSE SubSeq(s, 1, SetMin(commas) - 1)

\* s.trim()
Trim(s) ==
    LET keep == {i \in 1..Len(s) : ~IsSpace(s[i])}
    IN IF keep = {} THEN <<>> ELSE SubSeq(s, SetMin(keep), SetMax(keep))

\* A variant of the identity that does not trim the first segment.
ipOfNoTrim(h) ==
    IF ~h.present THEN Unknown
    ELSE LET seg == SplitFirst(h.chars)
         IN IF seg = <<>> THEN Unknown ELSE seg

\* (req.headers['x-forwarded-for'] as string)?.split(',')[0]?.trim() || 'unknown'
ipOf(h) ==
    IF ~h.present THEN Unknown
    ELSE LET seg == Trim(SplitFirst(h.chars))
         IN IF seg = <<>> THEN Unknown ELSE seg

(***************************************************************************)
(* Input validation                                                        *)
(***************************************************************************)
Null == "null"

MsgTarget(p) == "Missing or invalid 'target'."
MsgLength(p) ==
    IF p = "claude" THEN "Target exceeds 50,000 characters."
    ELSE "Target exceeds 50000 characters."
MsgType(p) ==
    IF p = "claude" THEN "Invalid targetType."
    ELSE "Invalid targetType. Must be one of: CODE, WEB_APP, NETWORK"

\* VALID_TYPES.includes(v)
IsValidType(v) == IsString(v) /\ "s" \in DOMAIN v /\ v.s \in VALID_TYPES

\* A variant of validateBody that tests the type rule before the length rule.
validateBodyTypeFirst(p, body) ==
    LET target == Prop(body, "target")
    IN IF ~Truthy(target) \/ ~IsString(target) THEN MsgTarget(p)
       ELSE IF ~IsValidType(Prop(body, "targetType")) THEN MsgType(p)
       ELSE IF target.len > MAX_TARGET_LENGTH THEN MsgLength(p)
       ELSE Null

\* A variant of validateBody with one message for the length and the type rule.
validateBodySameMsg(p, body) ==
    LET target == Prop(body, "target")
    IN IF ~Truthy(target) \/ ~IsString(target) THEN MsgTarget(p)
       ELSE IF target.len > MAX_TARGET_LENGTH THEN MsgLength(p)
       ELSE IF ~IsValidType(Prop(body, "targetType")) THEN MsgLength(p)
       ELSE Null

\* validateBody(body) of handler variant p: a message, or Null
validateBody(p, body) ==
    LET target == Prop(body, "target")
    IN IF ~Truthy(target) \/ ~IsString(target) THEN MsgTarget(p)
       ELSE IF target.len > MAX_TARGET_LENGTH THEN MsgLength(p)
       ELSE IF ~IsValidType(Prop(body, "targetType")) THEN MsgType(p)
       ELSE Null

(***************************************************************************)
(* Responses                                                               *)
(***************************************************************************)
\* The three headers set before anything else.
Cors(p) ==
    [origin |-> IF p = "claude" THEN "https://aegis-security-scanner.vercel.app" ELSE "*",
     methods |-> "POST, OPTIONS",
     headers |-> "Content-Type"]

\* A variant of end() for a handler that answers before it sets the headers.
EndBare(p, n) ==
    [status |-> n, headers |-> [origin |-> "", methods |-> "", headers |-> ""],
     body |-> [kind |-> "none"]]

\* res.status(n).end()
End(p, n) == [status |-> n, headers |-> Cors(p), body |-> [kind |-> "none"]]

\* res.status(n).json({ error: msg })
Error(p, n, msg) ==
    [status |-> n, headers |-> Cors(p), body |-> [kind |-> "error", error |-> msg]]

\* res.status(200).json({ findings })
Findings(p, fs) ==
    [status |-> 200, headers |-> Cors(p), body |-> [kind |-> "findings", findings |-> fs]]

NoResponse == [status |-> 0, headers |-> [origin |-> "", methods |-> "", headers |-> ""],
               body |-> [kind |-> "none"]]

MsgMethod == "Method not allowed"
MsgRate(p) ==
    IF p = "claude" THEN "Rate limit reached. 10 scans per 15 minutes."
    ELSE "Rate limit reached. You can perform 10 scans per 15 minutes."
MsgConfig == "Server configuration error."
MsgAuth == "Invalid API key. Check your Anthropic API key."
MsgUpstreamRate == "AI engine rate limit reached. Wait a moment."
MsgUpstream == "AI engine returned an error. Please try again."
MsgMalformed == "AI engine returned malformed results."
MsgInternal == "Internal server error during scan."

(***************************************************************************)
(* The environment: process.env.<KEY> is unset, or a string                *)
(***************************************************************************)
NoKey == [set |-> FALSE, value |-> ""]
Key(v) == [set |-> TRUE, value |-> v]

\* !apiKey is false
KeyPresent(k) == k.set /\ k.value # ""

(***************************************************************************)
(* Normalisation of the findings                                           *)
(***************************************************************************)
\* String(n).padStart(3, '0')
Pad3(n) ==
    IF n < 10 THEN "00" \o ToString(n)
    ELSE IF n < 100 THEN "0" \o ToString(n)
    ELSE ToString(n)

\* A variant of the Set round trip that keeps every element.
UniqueOff(s) == s

\* [...new Set(s)]: the first occurrence of each element, in order
RECURSIVE Unique(_)
Unique(s) ==
    IF s = <<>> THEN <<>>
    ELSE LET front == Unique(SubSeq(s, 1, Len(s) - 1))
             x == s[Len(s)]
         IN IF \E i \in 1..Len(front) : front[i] = x THEN front ELSE Append(front, x)

\* A variant of the fallback id that numbers from 0.
IdOfZeroBased(f, idx) == IF Truthy(f.id) THEN f.id ELSE JsStr("AEGIS-" \o Pad3(idx))

\* f.id || `AEGIS-${String(idx + 1).padStart(3, '0')}`, idx counted from 0
IdOf(f, idx) == IF Truthy(f.id) THEN f.id ELSE JsStr("AEGIS-" \o Pad3(idx + 1))

\* f.references || []
RefsOf(f) == IF f.references.t = "array" THEN f.references.items ELSE <<>>

\* A variant of the map callback that drops codeFix.
NormalizeOneStrip(p, f, idx, groundingUrls) ==
    [f EXCEPT !.id = IdOf(f, idx),
              !.codeFix = Undefined,
              !.references = [t |-> "array", items |-> RefsOf(f)],
              !.cweId = IF p = "claude" /\ ~Truthy(f.cweId) THEN JsStr("N/A") ELSE f.cweId]

\* A variant of the map callback that gives every finding the first grounding URL.
NormalizeOneFirstUrl(p, f, idx, groundingUrls) ==
    IF p = "claude"
    THEN [f EXCEPT !.id = IdOf(f, idx),
                   !.references = [t |-> "array", items |-> RefsOf(f)],
                   !.cweId = IF Truthy(f.cweId) THEN f.cweId ELSE JsStr("N/A")]
    ELSE [f EXCEPT !.id = IdOf(f, idx),
                   !.references =
                       [t |-> "array",
                        items |-> Unique(RefsOf(f) \o
                            (IF Len(groundingUrls) > 0 THEN <<groundingUrls[1]>> ELSE <<>>))]]

\* A variant of the map callback that leaves an absent cweId absent.
NormalizeOneNoSentinel(p, f, idx, groundingUrls) ==
    [f EXCEPT !.id = IdOf(f, idx),
              !.references =
                  [t |-> "array",
                   items |-> IF p = "claude" THEN RefsOf(f)
                             ELSE Unique(RefsOf(f) \o
                                 (IF Len(groundingUrls) > 0
                                  THEN <<groundingUrls[(idx % Len(groundingUrls)) + 1]>>
                                  ELSE <<>>))]]

\* A variant of the map callback that copies the fields it names and no other.
NormalizeOneNamedOnly(p, f, idx, groundingUrls) ==
    [f EXCEPT !.id = IdOf(f, idx),
              !.title = Undefined,
              !.codeFix = Undefined,
              !.references = [t |-> "array", items |-> RefsOf(f)],
              !.cweId = IF p = "claude" /\ ~Truthy(f.cweId) THEN JsStr("N/A") ELSE f.cweId]

\* One finding of the 200 response; every field not named is copied (...f).
NormalizeOne(p, f, idx, groundingUrls) ==
    IF p = "claude"
    THEN [f EXCEPT !.id = IdOf(f, idx),
                   !.references = [t |-> "array", items |-> RefsOf(f)],
                   !.cweId = IF Truthy(f.cweId) THEN f.cweId ELSE JsStr("N/A")]
    ELSE [f EXCEPT !.id = IdOf(f, idx),
                   !.references =
                       [t |-> "array",
                        items |-> Unique(RefsOf(f) \o
                            (IF Len(groundingUrls) > 0
                             THEN <<groundingUrls[(idx % Len(groundingUrls)) + 1]>>
                             ELSE <<>>))]]

\* (parsed.findings || []).map(...)
Normalize(p, items, groundingUrls) ==
    [i \in 1..Len(items) |-> NormalizeOne(p, items[i], i - 1, groundingUrls)]

(***************************************************************************)
(* The handler                                                             *)
(*                                                                         *)
(* HandlerSync is the handler up to its only suspension point, the await   *)
(* of fetch; HandlerAsync is what it does with the outcome of that call.   *)
(* stages lists, in order, the steps the request went through:             *)
(* "rate" (checkRate called), "validate" (validateBody called),            *)
(* "credential" (process.env read), "fetch" (the upstream call issued).    *)
(***************************************************************************)
Sync(done, resp, map, stages, ip, rateOk, valMsg) ==
    [done |-> done, resp |-> resp, map |-> map, stages |-> stages,
     ip |-> ip, rateOk |-> rateOk, valMsg |-> valMsg]

\* A variant of the handler that validates the body before it checks the rate.
HandlerSyncValidateFirst(p, req, m, t) ==
    IF req.method = "OPTIONS" THEN Sync(TRUE, End(p, 200), m, <<>>, <<>>, "na", "na")
    ELSE IF req.method # "POST"
    THEN Sync(TRUE, Error(p, 405, MsgMethod), m, <<>>, <<>>, "na", "na")
    ELSE
    LET ip == ipOf(req.header)
        v == validateBody(p, req.body)
        r == checkRate(m, ip, t)
    IN  IF v # Null
        THEN Sync(TRUE, Error(p, 400, v), m, <<"validate">>, ip, "na", v)
        ELSE IF ~r.ok
        THEN Sync(TRUE, Error(p, 429, MsgRate(p)), r.map, <<"validate", "rate">>, ip, "false", v)
        ELSE IF ~KeyPresent(req.apiKey)
        THEN Sync(TRUE, Error(p, 500, MsgConfig), r.map,
                  <<"validate", "rate", "credential">>, ip, "true", v)
        ELSE Sync(FALSE, NoResponse, r.map,
                  <<"validate", "rate", "credential", "fetch">>, ip, "true", v)

\* A variant of the handler that reads the credential before it validates the body.
HandlerSyncKeyFirst(p, req, m, t) ==
    IF req.method = "OPTIONS" THEN Sync(TRUE, End(p, 200), m, <<>>, <<>>, "na", "na")
    ELSE IF req.method # "POST"
    THEN Sync(TRUE, Error(p, 405, MsgMethod), m, <<>>, <<>>, "na", "na")
    ELSE
    LET ip == ipOf(req.header)
        r == checkRate(m, ip, t)
        v == validateBody(p, req.body)
    IN  IF ~r.ok
        THEN Sync(TRUE, Error(p, 429, MsgRate(p)), r.map, <<"rate">>, ip, "false", "na")
        ELSE IF ~KeyPresent(req.apiKey)
        THEN Sync(TRUE, Error(p, 500, MsgConfig), r.map, <<"rate", "credential">>, ip, "true", "na")
        ELSE IF v # Null
        THEN Sync(TRUE, Error(p, 400, v), r.map, <<"rate", "credential", "validate">>, ip, "true", v)
        ELSE Sync(FALSE, NoResponse, r.map,
                  <<"rate", "credential", "validate", "fetch">>, ip, "true", v)

\* A variant of the handler that calls the upstream with whatever credential it read.
HandlerSyncNoKeyCheck(p, req, m, t) ==
    IF req.method = "OPTIONS" THEN Sync(TRUE, End(p, 200), m, <<>>, <<>>, "na", "na")
    ELSE IF req.method # "POST"
    THEN Sync(TRUE, Error(p, 405, MsgMethod), m, <<>>, <<>>, "na", "na")
    ELSE
    LET ip == ipOf(req.header)
        r == checkRate(m, ip, t)
        v == validateBody(p, req.body)
    IN  IF ~r.ok
        THEN Sync(TRUE, Error(p, 429, MsgRate(p)), r.map, <<"rate">>, ip, "false", "na")
        ELSE IF v # Null
        THEN Sync(TRUE, Error(p, 400, v), r.map, <<"rate", "validate">>, ip, "true", v)
        ELSE Sync(FALSE, NoResponse, r.map,
                  <<"rate", "validate", "credential", "fetch">>, ip, "true", v)

\* A variant of the handler that checks the rate before it looks at the method.
HandlerSyncRateFirst(p, req, m, t) ==
    LET ip == ipOf(req.header)
        r == checkRate(m, ip, t)
        v == validateBody(p, req.body)
    IN  IF ~r.ok
        THEN Sync(TRUE, Error(p, 429, MsgRate(p)), r.map, <<"rate">>, ip, "false", "na")
        ELSE IF req.method = "OPTIONS"
        THEN Sync(TRUE, End(p, 200), r.map, <<"rate">>, ip, "true", "na")
        ELSE IF req.method # "POST"
        THEN Sync(TRUE, Error(p, 405, MsgMethod), r.map, <<"rate">>, ip, "true", "na")
        ELSE IF v # Null
        THEN Sync(TRUE, Error(p, 400, v), r.map, <<"rate", "validate">>, ip, "true", v)
        ELSE IF ~KeyPresent(req.apiKey)
        THEN Sync(TRUE, Error(p, 500, MsgConfig), r.map,
                  <<"rate", "validate", "credential">>, ip, "true", v)
        ELSE Sync(FALSE, NoResponse, r.map,
                  <<"rate", "validate", "credential", "fetch">>, ip, "true", v)

\* A handler that gives the unit of quota back when the request fails its own
\* checks.
HandlerSyncRefund(p, req, m, t) ==
    IF req.method = "OPTIONS" THEN Sync(TRUE, End(p, 200), m, <<>>, <<>>, "na", "na")
    ELSE IF req.method # "POST"
    THEN Sync(TRUE, Error(p, 405, MsgMethod), m, <<>>, <<>>, "na", "na")
    ELSE
    LET ip == ipOf(req.header)
        r == checkRate(m, ip, t)
        v == validateBody(p, req.body)
    IN  IF ~r.ok
        THEN Sync(TRUE, Error(p, 429, MsgRate(p)), r.map, <<"rate">>, ip, "false", "na")
        ELSE IF v # Null
        THEN Sync(TRUE, Error(p, 400, v), m, <<"rate", "validate">>, ip, "true", v)
        ELSE IF ~KeyPresent(req.apiKey)
        THEN Sync(TRUE, Error(p, 500, MsgConfig), m,
                  <<"rate", "validate", "credential">>, ip, "true", v)
        ELSE Sync(FALSE, NoResponse, r.map,
                  <<"rate", "validate", "credential", "fetch">>, ip, "true", v)

\* A handler that answers the other methods as it does but counts them too.
HandlerSyncCountAll(p, req, m, t) ==
    LET ip == ipOf(req.header)
        r == checkRate(m, ip, t)
        v == validateBody(p, req.body)
    IN  IF req.method = "OPTIONS"
        THEN Sync(TRUE, End(p, 200), r.map, <<>>, <<>>, "na", "na")
        ELSE IF req.method # "POST"
        THEN Sync(TRUE, Error(p, 405, MsgMethod), r.map, <<>>, <<>>, "na", "na")
        ELSE IF ~r.ok
        THEN Sync(TRUE, Error(p, 429, MsgRate(p)), r.map, <<"rate">>, ip, "false", "na")
        ELSE IF v # Null
        THEN Sync(TRUE, Error(p, 400, v), r.map, <<"rate", "validate">>, ip, "true", v)
        ELSE IF ~KeyPresent(req.apiKey)
        THEN Sync(TRUE, Error(p, 500, MsgConfig), r.map,
                  <<"rate", "validate", "credential">>, ip, "true", v)
        ELSE Sync(FALSE, NoResponse, r.map,
                  <<"rate", "validate", "credential", "fetch">>, ip, "true", v)

\* The handler from its first line to the await of fetch.
HandlerSync(p, req, m, t) ==
    IF req.method = "OPTIONS" THEN Sync(TRUE, End(p, 200), m, <<>>, <<>>, "na", "na")
    ELSE IF req.method # "POST"
    THEN Sync(TRUE, Error(p, 405, MsgMethod), m, <<>>, <<>>, "na", "na")
    ELSE
    LET ip == ipOf(req.header)
        r == checkRate(m, ip, t)
        v == validateBody(p, req.body)
    IN  IF ~r.ok
        THEN Sync(TRUE, Error(p, 429, MsgRate(p)), r.map, <<"rate">>, ip, "false", "na")
        ELSE IF v # Null
        THEN Sync(TRUE, Error(p, 400, v), r.map, <<"rate", "validate">>, ip, "true", v)
        ELSE IF ~KeyPresent(req.apiKey)
        THEN Sync(TRUE, Error(p, 500, MsgConfig), r.map,
                  <<"rate", "validate", "credential">>, ip, "true", v)
        ELSE Sync(FALSE, NoResponse, r.map,
                  <<"rate", "validate", "credential", "fetch">>, ip, "true", v)

(***************************************************************************)
(* Outcomes of the upstream call                                           *)
(*   Transport             fetch rejects (network failure, timeout)        *)
(*   Http(status, ...)     fetch resolves with a response; readOk: reading *)
(*                         its body (text() or json()) resolves.  For a    *)
(*                         2xx, hasText: the extracted text is non-empty;  *)
(*                         parses: JSON.parse of it succeeds, giving value *)
(***************************************************************************)
Transport == [kind |-> "transport"]
HttpError(status, readOk) == [kind |-> "http", status |-> status, readOk |-> readOk]
\* the same outcomes with what only the log sees: the exception, the error body
TransportDetail(detail) == [kind |-> "transport", detail |-> detail]
HttpErrorText(status, errText) ==
    [kind |-> "http", status |-> status, readOk |-> TRUE, errText |-> errText]
HttpOk(status, readOk, hasText, parses, value, grounding) ==
    [kind |-> "http", status |-> status, readOk |-> readOk, hasText |-> hasText,
     parses |-> parses, value |-> value, grounding |-> grounding]

Array(items) == [t |-> "array", items |-> items]
Object(findings) == [t |-> "object", findings |-> findings]

\* response.ok
IsOk(status) == status \in 200..299

\* The non-2xx branch.
\* A variant of the error branch that passes the upstream error body on.
ErrorBranchLeak(p, up) ==
    IF ~up.readOk THEN Error(p, 500, MsgInternal)
    ELSE IF "errText" \in DOMAIN up THEN Error(p, 502, up.errText)
    ELSE Error(p, 502, MsgUpstream)

ErrorBranch(p, up) ==
    IF ~up.readOk THEN Error(p, 500, MsgInternal)
    ELSE IF p = "claude" /\ up.status = 401 THEN Error(p, 502, MsgAuth)
    ELSE IF p = "claude" /\ up.status = 429 THEN Error(p, 429, MsgUpstreamRate)
    ELSE Error(p, 502, MsgUpstream)

\* A variant of the 2xx branch that answers unparseable text with no findings.
OkBranchRecover(p, up) ==
    IF ~up.readOk THEN Error(p, 500, MsgInternal)
    ELSE
    LET parsed == IF up.hasText /\ up.parses THEN up.value ELSE Object(Array(<<>>))
        given == Prop(parsed, "findings")
        list == IF Truthy(given) THEN given ELSE Array(<<>>)
    IN  IF parsed.t \in {"null", "undefined"} THEN Error(p, 500, MsgInternal)
        ELSE IF list.t # "array" THEN Error(p, 500, MsgInternal)
        ELSE IF \E i \in 1..Len(list.items) : list.items[i].t # "object"
        THEN Error(p, 500, MsgInternal)
        ELSE Findings(p, Normalize(p, list.items, up.grounding))

\* The 2xx branch: text extraction, JSON.parse, the findings of the response.
OkBranch(p, up) ==
    IF ~up.readOk THEN Error(p, 500, MsgInternal)
    ELSE IF up.hasText /\ ~up.parses THEN Error(p, 502, MsgMalformed)
    ELSE
    LET parsed == IF up.hasText THEN up.value ELSE Object(Array(<<>>))
        given == Prop(parsed, "findings")
        list == IF Truthy(given) THEN given ELSE Array(<<>>)
    IN  IF parsed.t \in {"null", "undefined"} THEN Error(p, 500, MsgInternal)
        ELSE IF list.t # "array" THEN Error(p, 500, MsgInternal)
        ELSE IF \E i \in 1..Len(list.items) : list.items[i].t # "object"
        THEN Error(p, 500, MsgInternal)
        ELSE Findings(p, Normalize(p, list.items, up.grounding))

\* The handler from the outcome of fetch to its response; a throw lands in catch.
HandlerAsync(p, up) ==
    IF up.kind = "transport" THEN Error(p, 500, MsgInternal)
    ELSE IF ~IsOk(up.status) THEN ErrorBranch(p, up)
    ELSE OkBranch(p, up)

\* A variant of the upstream call that calls again when the first call failed.
HandlerAwaitRetry(p, outs) ==
    IF Len(outs) > 1 /\ (outs[1].kind = "transport" \/ ~IsOk(outs[1].status))
    THEN [up |-> outs[1], calls |-> 2, resp |-> HandlerAsync(p, outs[2])]
    ELSE [up |-> outs[1], calls |-> 1, resp |-> HandlerAsync(p, outs[1])]

\* The upstream call and what follows it. outs lists the outcomes the network
\* would give to the first call, the second call and so on; the handler has one
\* fetch, outside any loop, so it consumes the first and no other.
HandlerAwait(p, outs) ==
    [up |-> outs[1], calls |-> 1, resp |-> HandlerAsync(p, outs[1])]

(***************************************************************************)
(* Observers                                                               *)
(***************************************************************************)
\* The quota window as a caller sees it: it opens with the first POST of an
\* identity, or the first one more than WINDOW_MS after the window's opening;
\* admitted counts the POSTs of the window not answered by the limiter's 429;
\* resumed tells that the window before it had used its whole quota.
EmptyMonitor == [k \in {} |-> [start |-> 0, admitted |-> 0, resumed |-> FALSE]]

InWindow(mon, ip, t) == ip \in DOMAIN mon /\ t <= mon[ip].start + WINDOW_MS

MonitorStep(mon, ip, t, admitted) ==
    LET cur == IF InWindow(mon, ip, t) THEN mon[ip]
               ELSE [start |-> t, admitted |-> 0,
                     resumed |-> ip \in DOMAIN mon /\ mon[ip].admitted >= RATE_LIMIT]
    IN MapSet(mon, ip, [cur EXCEPT !.admitted = @ + (IF admitted THEN 1 ELSE 0)])

\* The response is the rate limiter's own 429.
IsLocal429(p, resp) ==
    resp.status = 429 /\ resp.body.kind = "error" /\ resp.body.error = MsgRate(p)

Req(method, header, body, apiKey) ==
    [method |-> method, header |-> header, body |-> body, apiKey |-> apiKey]

NoUpstream == [kind |-> "none"]

NoLast ==
    [req |-> Req("none", NoHeader, Undefined, NoKey), ip |-> <<>>, rateOk |-> "na",
     stages |-> <<>>, valMsg |-> "na", up |-> NoUpstream, calls |-> 0,
     resp |-> NoResponse]

\* A request suspended at the await of fetch: what it was and what the rate
\* limiter wrote for it (the count it set, in the window ending at resetAt).
NoPending == <<>>

Slot(req, s) ==
    [req |-> req, ip |-> s.ip, stages |-> s.stages, valMsg |-> s.valMsg,
     ticket |-> s.map[s.ip].count, resetAt |-> s.map[s.ip].resetAt]

\* every outcome as the only one the network has to give
Once(ups) == {<<up>> : up \in ups}

(***************************************************************************)
(* Inputs                                                                  *)
(***************************************************************************)
ValidBody == Body(JsText(10), JsStr("CODE"))

\* x-forwarded-for: absent, one address, an address with padding and a proxy chain
RateHeaders == {NoHeader, Header(<<"a">>), Header(<<" ", "a", " ", ",", "b">>)}

RateRequests == {Req("POST", h, ValidBody, Key("k")) : h \in RateHeaders}

RateUpstreams == {HttpOk(200, TRUE, FALSE, TRUE, JsNull, <<>>)}

\* two spellings of one caller
GatewayHeaders == {Header(<<"a">>), Header(<<"a", ",", " ", "b">>)}

GatewayBodies ==
    {ValidBody,
     Undefined,
     Body(Undefined, JsStr("CODE")),
     Body(JsText(MAX_TARGET_LENGTH + 1), JsStr("CODE")),
     Body(JsText(10), JsStr("code"))}

GatewayKeys == {NoKey, Key(""), Key("k")}

GatewayRequests ==
    {Req("POST", h, b, k) : h \in GatewayHeaders, b \in GatewayBodies, k \in GatewayKeys}
    \cup {Req(m, h, ValidBody, Key("k")) : m \in {"OPTIONS", "GET"}, h \in GatewayHeaders}

NoIdFinding ==
    [t |-> "object", id |-> Undefined, title |-> JsStr("t"), codeFix |-> Undefined,
     references |-> Undefined, cweId |-> Undefined]

GatewayUpstreams ==
    {Transport}
    \cup {HttpError(st, TRUE) : st \in {400, 401, 429, 500, 503}}
    \cup {HttpError(500, FALSE)}
    \cup {HttpOk(200, FALSE, FALSE, FALSE, JsNull, <<>>),
          HttpOk(200, TRUE, FALSE, FALSE, JsNull, <<>>),
          HttpOk(200, TRUE, TRUE, FALSE, JsNull, <<>>),
          HttpOk(200, TRUE, TRUE, TRUE, JsNull, <<>>),
          HttpOk(200, TRUE, TRUE, TRUE, Object(Undefined), <<>>),
          HttpOk(201, TRUE, TRUE, TRUE, Object(Array(<<NoIdFinding>>)), <<>>)}

\* Inputs of the upstream call: a credential unset or set to one of two values,
\* a body that passes validation and one that does not, and outcomes that come
\* with one of two details (the exception thrown, the error body).
UpstreamKeys == {NoKey, Key("k"), Key("k2")}

UpstreamRequests ==
    {Req("POST", Header(<<"a">>), b, k) :
        b \in {ValidBody, Body(Undefined, JsStr("CODE"))}, k \in UpstreamKeys}

Details == {"d1", "d2"}

OneFinding == HttpOk(200, TRUE, TRUE, TRUE, Object(Array(<<NoIdFinding>>)), <<>>)

UpstreamOutcomes ==
    {TransportDetail(d) : d \in Details}
    \cup {HttpErrorText(st, d) : st \in {401, 429, 500}, d \in Details}
    \cup {HttpError(500, FALSE),
          HttpOk(200, TRUE, TRUE, FALSE, JsNull, <<>>),
          OneFinding}

\* what a first and a second call would get
UpstreamScripts ==
    {<<first, second>> : first \in UpstreamOutcomes,
                         second \in {TransportDetail("d1"), OneFinding}}

\* Inputs of a scan: CODE bodies with autoRemediation false, true and not given,
\* and 2xx outcomes whose findings come with or without an id and a codeFix.
ScanBodies ==
    {ScanBody(JsText(10), JsStr("CODE"), Settings(JsBool(b))) : b \in BOOLEAN}
    \cup {ValidBody}

ScanRequests == {Req("POST", Header(<<"a">>), b, Key("k")) : b \in ScanBodies}

FixFinding ==
    [t |-> "object", id |-> JsStr("X-1"), title |-> JsStr("fix"), codeFix |-> JsStr("patch"),
     references |-> Array(<<"r1">>), cweId |-> JsStr("CWE-89")]

EmptyIdFinding == [FixFinding EXCEPT !.id = JsStr("")]

FindingArrays ==
    UNION {[1..n -> {NoIdFinding, FixFinding}] : n \in 0..MaxFindings}
    \cup {<<EmptyIdFinding, FixFinding>>, [i \in 1..ManyFindings |-> NoIdFinding]}

ScanUpstreams ==
    {HttpOk(200, TRUE, TRUE, TRUE, Object(Array(fs)), <<>>) : fs \in FindingArrays}

\* Inputs of concurrent requests: one caller.
ConcurrentRequests == {Req("POST", Header(<<"a">>), ValidBody, Key("k"))}

ConcurrentUpstreams == {Transport, OneFinding}

\* Inputs of the enrichment: findings whose references are absent, null, plain,
\* repeated, or already hold a grounding URL, and answers with 0 to MaxGrounding
\* grounding URLs (and one that names the same URL twice).
RefFinding(references, cweId) ==
    [NoIdFinding EXCEPT !.references = references, !.cweId = cweId]

RefKinds ==
    <<RefFinding(Undefined, Undefined),
      RefFinding(Array(<<"r1">>), JsStr("CWE-89")),
      RefFinding(Array(<<"g1">>), Undefined),
      RefFinding(Array(<<"r1", "r1">>), JsNull),
      RefFinding(Array(<<"g2", "r1">>), JsStr("CWE-79")),
      RefFinding(JsNull, JsStr("CWE-89"))>>

\* arrays of 1 to MaxRefFindings findings, the kinds in turn from three starts
\* (each kind comes at an even and at an odd position)
RefArrays ==
    {[i \in 1..n |-> RefKinds[((i + shift) % Len(RefKinds)) + 1]] :
        n \in 1..MaxRefFindings, shift \in 0..2}

GroundingPool == <<"g1", "g2", "g3", "g4">>

Groundings ==
    {SubSeq(GroundingPool, 1, k) : k \in 0..MaxGrounding} \cup {<<"g1", "g1">>}

RefUpstreams ==
    {HttpOk(200, TRUE, TRUE, TRUE, Object(Array(fs)), g) : fs \in RefArrays, g \in Groundings}

(***************************************************************************)
(* Cleaning and parsing the upstream text (instructed-JSON handler)        *)
(*                                                                         *)
(* A text is a sequence of characters.  "f" stands for the text of a       *)
(* findings member with one finding, which has no backtick and no space.   *)
(***************************************************************************)
\* the backtick character
Backtick == "BACKTICK"

Fence == <<Backtick, Backtick, Backtick>>

FenceJson == Fence \o <<"j", "s", "o", "n">>

\* s without its leading white space (the \s* after a match)
DropSpaces(s) ==
    LET keep == {i \in 1..Len(s) : ~IsSpace(s[i])}
    IN IF keep = {} THEN <<>> ELSE SubSeq(s, SetMin(keep), Len(s))

\* s.replace(/pat\s*/g, ''): every match from left to right, none overlapping
RECURSIVE ReplaceAll(_, _)
ReplaceAll(s, pat) ==
    IF Len(s) < Len(pat) THEN s
    ELSE IF SubSeq(s, 1, Len(pat)) = pat
         THEN ReplaceAll(DropSpaces(SubSeq(s, Len(pat) + 1, Len(s))), pat)
         ELSE <<s[1]>> \o ReplaceAll(Tail(s), pat)

\* s.replace(/pat\s*/, ''): the first match only
RECURSIVE ReplaceFirst(_, _)
ReplaceFirst(s, pat) ==
    IF Len(s) < Len(pat) THEN s
    ELSE IF SubSeq(s, 1, Len(pat)) = pat
         THEN DropSpaces(SubSeq(s, Len(pat) + 1, Len(s)))
         ELSE <<s[1]>> \o ReplaceFirst(Tail(s), pat)

\* A variant of the cleaning whose patterns lack the g flag.
StripFencesFirstOnly(text) == Trim(ReplaceFirst(ReplaceFirst(text, FenceJson), Fence))

\* text.replace(/```json\s*/g, '').replace(/```\s*/g, '').trim()
StripFences(text) == Trim(ReplaceAll(ReplaceAll(text, FenceJson), Fence))

\* JSON.parse on the texts of the model: white space between tokens is
\* skipped, {} and {f} are documents, anything else throws.
JsonParse(text) ==
    LET tokens == SelectSeq(text, LAMBDA c : ~IsSpace(c))
    IN  IF tokens = <<"{", "}">> THEN [ok |-> TRUE, value |-> Object(Undefined)]
        ELSE IF tokens = <<"{", "f", "}">>
        THEN [ok |-> TRUE, value |-> Object(Array(<<NoIdFinding>>))]
        ELSE [ok |-> FALSE, value |-> Undefined]

\* cleanText and the outcome of JSON.parse(cleanText); again is the cleaning
\* applied to cleanText.
CleanAndParse(text) ==
    LET cleanText == StripFences(text)
    IN  [clean |-> cleanText, again |-> StripFences(cleanText), parsed |-> JsonParse(cleanText)]

(***************************************************************************)
(* The client: performScan of src/services/geminiScanner.ts                *)
(***************************************************************************)
\* what the client's fetch of /api/scan gives: a response of the gateway, or
\* a rejection
NetworkFailure == [status |-> 0, failed |-> TRUE]

MsgClientRate == "Rate limit reached. Please wait a few minutes before scanning again."
MsgClientMalformed == "Received malformed scan results from the server."
MsgClientNetwork == "Could not reach the Aegis API. Check your connection and try again."
MsgClientStatus(status) ==
    "Scan failed with status " \o ToString(status) \o ". Check your API configuration."

Thrown(message) == [kind |-> "thrown", message |-> message]

\* findings.map(({ codeFix, ...rest }) => rest)
WithoutCodeFix(f) == [k \in DOMAIN f \ {"codeFix"} |-> f[k]]

\* the summary: the findings of the model carry no severity and count as info
Summary(findings) ==
    [total |-> Len(findings), critical |-> 0, high |-> 0, medium |-> 0, low |-> 0,
     info |-> Len(findings)]

ScanResult(findings) ==
    [kind |-> "result", summary |-> Summary(findings), findings |-> findings]

\* A variant of performScan that returns the findings as received.
performScanNoStrip(settings, response) ==
    IF "failed" \in DOMAIN response THEN Thrown(MsgClientNetwork)
    ELSE IF ~IsOk(response.status)
    THEN IF response.status = 429 THEN Thrown(MsgClientRate)
         ELSE IF response.body.kind = "error" /\ response.body.error # ""
              THEN Thrown(response.body.error)
              ELSE Thrown(MsgClientStatus(response.status))
    ELSE IF response.body.kind # "findings" THEN Thrown(MsgClientMalformed)
    ELSE ScanResult(response.body.findings)

\* performScan(target, type, settings) given what fetch gives
performScan(settings, response) ==
    IF "failed" \in DOMAIN response THEN Thrown(MsgClientNetwork)
    ELSE IF ~IsOk(response.status)
    THEN IF response.status = 429 THEN Thrown(MsgClientRate)
         ELSE IF response.body.kind = "error" /\ response.body.error # ""
              THEN Thrown(response.body.error)
              ELSE Thrown(MsgClientStatus(response.status))
    ELSE IF response.body.kind # "findings" THEN Thrown(MsgClientMalformed)
    ELSE LET findings == response.body.findings
             processedFindings ==
                 IF Truthy(Prop(settings, "autoRemediation")) THEN findings
                 ELSE [i \in 1..Len(findings) |-> WithoutCodeFix(findings[i])]
         IN  ScanResult(processedFindings)

(***************************************************************************)
(* The request sent upstream                                               *)
(*                                                                         *)
(* The user message is the sequence of the pieces of its template literal, *)
(* fixed text and interpolated values alike, each a JavaScript string.     *)
(***************************************************************************)
\* `${autoRem}`
BoolText(b) == JsStr(IF b THEN "true" ELSE "false")

SearchFirst == JsStr(" Use Google Search for OSINT reconnaissance first.")

AutoRemLabel == JsStr("\n\nAutoRemediation: ")

\* userMessage (scan.ts) and userContent (part_000)
UserMessage(p, body) ==
    <<JsStr("Target Type: "), body.targetType, JsStr("\nTarget/Input:\n"), body.target,
      AutoRemLabel, BoolText(AutoRem(body))>>
    \o (IF p = "claude"
        THEN <<JsStr("\n\nPerform a thorough security audit. Return ONLY the JSON object with findings.")>>
        ELSE <<JsStr("\nPerform a thorough security audit.")>>
             \o (IF body.targetType # JsStr("CODE") THEN <<SearchFirst>> ELSE <<>>))

NoThinking == [set |-> FALSE]

\* A variant of the request builder that asks for search and for extended
\* reasoning whatever the target type and the toggle.
BuildRequestAlways(p, body) ==
    [message |-> UserMessage(p, body) \o <<SearchFirst>>,
     tools |-> {"googleSearch"},
     thinkingConfig |-> [set |-> TRUE, thinkingBudget |-> THINKING_BUDGET]]

\* A variant of the request builder that writes the toggle as it came.
BuildRequestRawToggle(p, body) ==
    [message |-> [UserMessage(p, body) EXCEPT ![6] =
                     BoolText(Truthy(Prop(Prop(body, "settings"), "autoRemediation")))],
     tools |-> IF p = "gemini" /\ body.targetType # JsStr("CODE")
               THEN {"googleSearch"} ELSE {},
     thinkingConfig |-> IF p = "gemini" /\ Truthy(Prop(Prop(body, "settings"), "deepThinking"))
                        THEN [set |-> TRUE, thinkingBudget |-> THINKING_BUDGET]
                        ELSE NoThinking]

\* The body of the upstream request, as far as it depends on the scan request:
\* the user message, the tools and the thinking configuration.
BuildRequest(p, body) ==
    [message |-> UserMessage(p, body),
     tools |-> IF p = "gemini" /\ body.targetType # JsStr("CODE")
               THEN {"googleSearch"} ELSE {},
     thinkingConfig |-> IF p = "gemini" /\ DeepThinking(body)
                        THEN [set |-> TRUE, thinkingBudget |-> THINKING_BUDGET]
                        ELSE NoThinking]

\* Inputs of the identity: the header absent, empty, with an empty or blank
\* first segment, and the addresses a and b bare, padded and with a proxy chain.
IdentityHeaders ==
    {NoHeader, Header(<<>>), Header(<<",", "b">>), Header(<<" ", ",", "a">>),
     Header(<<"a">>), Header(<<" ", "a", " ", ",", "b">>), Header(<<"a", ",", "c">>),
     Header(<<"b">>)}

IdentityRequests == {Req("POST", h, ValidBody, Key("k")) : h \in IdentityHeaders}

\* One caller while the upstream is out of order: bodies that pass validation
\* and bodies that do not, the credential set or not, and an upstream that
\* fails, refuses, or answers with something that is not a result.
QuotaRequests ==
    {Req("POST", Header(<<"a">>), b, k) :
        b \in {ValidBody, Undefined, Body(JsText(MAX_TARGET_LENGTH + 1), JsStr("CODE"))},
        k \in {NoKey, Key("k")}}

QuotaUpstreams ==
    {Transport,
     HttpError(429, TRUE),
     HttpError(500, TRUE),
     HttpOk(200, FALSE, FALSE, FALSE, JsNull, <<>>),
     HttpOk(200, TRUE, TRUE, FALSE, JsNull, <<>>)}

(***************************************************************************)
(* Actions                                                                 *)
(***************************************************************************)
\* One request, from its arrival to its response.
Handle(req, scripts) ==
    LET s == HandlerSync(provider, req, rateMap, now)
        Record(up, calls, resp) ==
            /\ rateMap' = s.map
            /\ monitor' = IF req.method = "POST"
                          THEN MonitorStep(monitor, ipOf(req.header), now,
                                           ~IsLocal429(provider, resp))
                          ELSE monitor
            /\ last' = [req |-> req, ip |-> s.ip, rateOk |-> s.rateOk,
                        stages |-> s.stages, valMsg |-> s.valMsg, up |-> up,
                        calls |-> calls, resp |-> resp]
            /\ UNCHANGED <<provider, now, pending, vin, vout>>
    IN  IF s.done
        THEN Record(NoUpstream, 0, s.resp)
        ELSE \E outs \in scripts :
                 LET a == HandlerAwait(provider, outs)
                 IN  Record(a.up, a.calls, a.resp)

\* A request arrives and runs to its response or to the await of fetch, in one
\* step: nothing else runs in the process until the handler returns or awaits.
Arrive(req) ==
    LET s == HandlerSync(provider, req, rateMap, now)
    IN  /\ rateMap' = s.map
        /\ IF s.done
           THEN /\ monitor' = IF req.method = "POST"
                               THEN MonitorStep(monitor, ipOf(req.header), now,
                                                ~IsLocal429(provider, s.resp))
                               ELSE monitor
                /\ last' = [req |-> req, ip |-> s.ip, rateOk |-> s.rateOk,
                            stages |-> s.stages, valMsg |-> s.valMsg, up |-> NoUpstream,
                            calls |-> 0, resp |-> s.resp]
                /\ pending' = pending
           ELSE /\ Len(pending) < MaxInflight
                /\ pending' = Append(pending, Slot(req, s))
                /\ monitor' = MonitorStep(monitor, ipOf(req.header), now, TRUE)
                /\ last' = last
        /\ UNCHANGED <<provider, now, vin, vout>>

\* The fetch of a suspended request settles and its handler runs to the end.
Complete(i) ==
    /\ i \in 1..Len(pending)
    /\ \E outs \in Once(ConcurrentUpstreams) :
          LET a == HandlerAwait(provider, outs)
          IN  last' = [req |-> pending[i].req, ip |-> pending[i].ip, rateOk |-> "true",
                       stages |-> pending[i].stages, valMsg |-> pending[i].valMsg,
                       up |-> a.up, calls |-> a.calls, resp |-> a.resp]
    /\ pending' = SubSeq(pending, 1, i - 1) \o SubSeq(pending, i + 1, Len(pending))
    /\ UNCHANGED <<provider, rateMap, now, monitor, vin, vout>>

\* Time passes: 1 ms, or a whole window.
Tick(d) ==
    /\ d \in {1, WINDOW_MS}
    /\ d = 1 => now % WINDOW_MS < MaxFine
    /\ d = WINDOW_MS => now \div WINDOW_MS < MaxWindows
    /\ now' = now + d
    /\ UNCHANGED <<provider, rateMap, monitor, last, pending, vin, vout>>

HandleRate == \E req \in RateRequests : Handle(req, Once(RateUpstreams))

HandleGateway == \E req \in GatewayRequests : Handle(req, Once(GatewayUpstreams))

Init ==
    /\ provider \in Providers
    /\ rateMap = EmptyMap
    /\ now = 0
    /\ monitor = EmptyMonitor
    /\ last = NoLast
    /\ pending = NoPending
    /\ vin = <<Undefined, Undefined>>
    /\ vout = <<"idle", "idle">>

HandleUpstream == \E req \in UpstreamRequests : Handle(req, UpstreamScripts)

HandleScan == \E req \in ScanRequests : Handle(req, Once(ScanUpstreams))

HandleRefs ==
    Handle(Req("POST", Header(<<"a">>), ValidBody, Key("k")), Once(RefUpstreams))

HandleIdentity == \E req \in IdentityRequests : Handle(req, Once(RateUpstreams))

HandleQuota == \E req \in QuotaRequests : Handle(req, Once(QuotaUpstreams))

\* The rate limiter over time: POSTs of two identities and the clock.
Next == HandleRate \/ (\E d \in {1, WINDOW_MS} : Tick(d))

Spec == Init /\ [][Next]_vars

\* The gateway within one window: every method, body, credential and upstream outcome.
NextGateway == HandleGateway

SpecGateway == Init /\ [][NextGateway]_vars

\* The upstream call: credentials, outcomes with their details, a network that
\* would answer a second call.
NextUpstream == HandleUpstream

SpecUpstream == Init /\ [][NextUpstream]_vars

\* Scans that reach the findings: settings and arrays of findings.
NextScan == HandleScan

SpecScan == Init /\ [][NextScan]_vars

\* Requests in flight at once: arrivals, completions in any order, the clock.
NextConcurrent ==
    \/ \E req \in ConcurrentRequests : Arrive(req)
    \/ \E i \in 1..MaxInflight : Complete(i)
    \/ \E d \in {1, WINDOW_MS} : Tick(d)

SpecConcurrent == Init /\ [][NextConcurrent]_vars

\* Scans whose findings have references, with and without grounding URLs.
NextRefs == HandleRefs

SpecRefs == Init /\ [][NextRefs]_vars

\* Callers told apart by their header, within one window.
NextIdentity == HandleIdentity

SpecIdentity == Init /\ [][NextIdentity]_vars

\* The quota of one caller whose requests all fail after the rate check.
NextQuota == HandleQuota

SpecQuota == Init /\ [][NextQuota]_vars

(***************************************************************************)
(* The validator on its own: two bodies, each validated once               *)
(***************************************************************************)
ValidatorTargets ==
    {Undefined, JsNull, JsNum(0), JsNum(7), JsObj,
     JsText(0), JsText(1), JsText(MAX_TARGET_LENGTH), JsText(MAX_TARGET_LENGTH + 1)}

ValidatorTypes ==
    {Undefined, JsStr("CODE"), JsStr("WEB_APP"), JsStr("NETWORK"), JsStr("code"), JsNum(1)}

ValidatorBodies ==
    {Undefined, JsNull} \cup {Body(tg, ty) : tg \in ValidatorTargets, ty \in ValidatorTypes}

InitValidate ==
    /\ provider \in Providers
    /\ rateMap = EmptyMap
    /\ now = 0
    /\ monitor = EmptyMonitor
    /\ last = NoLast
    /\ pending = NoPending
    /\ vin \in ValidatorBodies \X ValidatorBodies
    /\ vout = <<"idle", "idle">>

Validate(i) ==
    /\ vout[i] = "idle"
    /\ vout' = [vout EXCEPT ![i] = validateBody(provider, vin[i])]
    /\ UNCHANGED <<provider, rateMap, now, monitor, last, pending, vin>>

NextValidate == \E i \in {1, 2} : Validate(i)

SpecValidate == InitValidate /\ [][NextValidate]_vars

(***************************************************************************)
(* The cleaning of the upstream text on its own: a text and the same text  *)
(* inside code-fence markers                                               *)
(***************************************************************************)
Chunks ==
    {<<Backtick>>, Fence, <<"j", "s", "o", "n">>, <<"j", "s">>, <<" ">>,
     <<"{", "}">>, <<"{", "f", "}">>}

RECURSIVE TextsOf(_)
TextsOf(n) ==
    IF n = 0 THEN {<<>>}
    ELSE LET shorter == TextsOf(n - 1)
         IN  shorter \cup {t \o c : t \in shorter, c \in Chunks}

FenceTexts == TextsOf(MaxChunks)

\* a text inside code-fence markers, with and without the json tag and newlines
Wrappings(text) ==
    {FenceJson \o <<"\n">> \o text \o <<"\n">> \o Fence,
     Fence \o <<"\n">> \o text \o <<"\n">> \o Fence,
     FenceJson \o text \o Fence}

\* a text the handler has not cleaned yet
NotCleaned == [idle |-> TRUE]

InitFence ==
    /\ provider = "claude"
    /\ rateMap = EmptyMap
    /\ now = 0
    /\ monitor = EmptyMonitor
    /\ last = NoLast
    /\ pending = NoPending
    /\ \E text \in FenceTexts : \E wrapped \in Wrappings(text) : vin = <<text, wrapped>>
    /\ vout = <<NotCleaned, NotCleaned>>

\* The handler cleans and parses the text, then the wrapped text.
Clean(i) ==
    /\ vout[i] = NotCleaned
    /\ \A j \in 1..(i - 1) : vout[j] # NotCleaned
    /\ vout' = [vout EXCEPT ![i] = CleanAndParse(vin[i])]
    /\ UNCHANGED <<provider, rateMap, now, monitor, last, pending, vin>>

NextFence == \E i \in {1, 2} : Clean(i)

SpecFence == InitFence /\ [][NextFence]_vars

(***************************************************************************)
(* The client on its own: performScan on every response of the gateway     *)
(***************************************************************************)
ClientSettings == {Settings(JsBool(b)) : b \in BOOLEAN}

\* the responses of the gateway to the outcomes of its upstream call, its own
\* 429, 400 and 405, and no response at all
ClientResponses(p) ==
    {HandlerAwait(p, <<up>>).resp : up \in ScanUpstreams \cup GatewayUpstreams}
    \cup {Error(p, 429, MsgRate(p)), Error(p, 400, MsgTarget(p)), Error(p, 405, MsgMethod),
          NetworkFailure}

NotScanned == [idle |-> TRUE]

InitClient ==
    /\ provider \in Providers
    /\ rateMap = EmptyMap
    /\ now = 0
    /\ monitor = EmptyMonitor
    /\ last = NoLast
    /\ pending = NoPending
    /\ \E st \in ClientSettings : \E r \in ClientResponses(provider) :
          vin = [settings |-> st, response |-> r]
    /\ vout = NotScanned

PerformScan ==
    /\ vout = NotScanned
    /\ vout' = performScan(vin.settings, vin.response)
    /\ UNCHANGED <<provider, rateMap, now, monitor, last, pending, vin>>

NextClient == PerformScan

SpecClient == InitClient /\ [][NextClient]_vars

(***************************************************************************)
(* The request builder on its own: every target type and setting           *)
(***************************************************************************)
ToggleValues == {Undefined, JsNull, JsBool(TRUE), JsBool(FALSE), JsNum(0), JsStr("false")}

BuilderSettings ==
    {Undefined, JsNull, JsObj}
    \cup {ScanSettings(a, d) : a \in ToggleValues, d \in ToggleValues}

BuilderBodies ==
    {ScanBody(JsText(10), JsStr(ty), st) :
        ty \in VALID_TYPES \cup {"code"}, st \in BuilderSettings}

NotBuilt == [idle |-> TRUE]

Rejected(msg) == [rejected |-> TRUE, error |-> msg]

InitBuild ==
    /\ provider \in Providers
    /\ rateMap = EmptyMap
    /\ now = 0
    /\ monitor = EmptyMonitor
    /\ last = NoLast
    /\ pending = NoPending
    /\ vin \in BuilderBodies
    /\ vout = NotBuilt

\* The handler validates the body and builds the upstream request.
Build ==
    /\ vout = NotBuilt
    /\ vout' = IF validateBody(provider, vin) = Null
               THEN BuildRequest(provider, vin)
               ELSE Rejected(validateBody(provider, vin))
    /\ UNCHANGED <<provider, rateMap, now, monitor, last, pending, vin>>

NextBuild == Build

SpecBuild == InitBuild /\ [][NextBuild]_vars

(***************************************************************************)
(* Properties of the rate limiter (under Spec)                             *)
(***************************************************************************)
\* The identity of the last request, as the forwarded-address header gives it.
LastIp == ipOf(last.req.header)

LastIsPost == last.req.method = "POST"

\* C1: within one window of an identity at most RATE_LIMIT = 10 requests are
\* admitted, and a request is rejected only when 10 have been admitted in the
\* current window: the first 10 are admitted, the 11th and later are rejected.
C1_QuotaPerWindow ==
    /\ \A ip \in DOMAIN monitor : monitor[ip].admitted <= RATE_LIMIT
    /\ LastIsPost =>
         /\ (last.rateOk = "false") = IsLocal429(provider, last.resp)
         /\ IsLocal429(provider, last.resp) => monitor[LastIp].admitted = RATE_LIMIT
         /\ last.rateOk \in {"true", "false"}

\* An 11th request of a window has been rejected.
C1_Witness ==
    /\ LastIsPost
    /\ last.rateOk = "false"
    /\ monitor[LastIp].admitted = RATE_LIMIT
    /\ now <= monitor[LastIp].start + WINDOW_MS

\* C2: for an identity whose quota is used up, every request is rejected while
\* the window has not elapsed (now <= its end, the end included), and the first
\* request after it has elapsed is admitted, sets the count to 1 and the new
\* window boundary to now + WINDOW_MS.
C2_ResumeAfterWindow ==
    [][(now' = now /\ last'.req.method = "POST") =>
         LET ip == ipOf(last'.req.header)
         IN (ip \in DOMAIN monitor /\ monitor[ip].admitted >= RATE_LIMIT) =>
              IF now <= monitor[ip].start + WINDOW_MS
              THEN /\ IsLocal429(provider, last'.resp)
                   /\ last'.rateOk = "false"
                   /\ rateMap' = rateMap
              ELSE /\ ~IsLocal429(provider, last'.resp)
                   /\ last'.rateOk = "true"
                   /\ rateMap'[ip] = [count |-> 1, resetAt |-> now + WINDOW_MS]]_vars

\* A request has just opened a new window after one whose quota was used up.
C2_Witness ==
    /\ LastIsPost
    /\ last.rateOk = "true"
    /\ monitor[LastIp].resumed
    /\ monitor[LastIp].start = now
    /\ monitor[LastIp].admitted = 1
    /\ rateMap[LastIp] = [count |-> 1, resetAt |-> now + WINDOW_MS]

\* C3: a request of identity A leaves the entry of every other identity B as it
\* was, and a request of B is rejected only on B's own admissions, whatever A
\* has used.
C3_NoSharedQuota ==
    [][(now' = now /\ last'.req.method = "POST") =>
         LET a == ipOf(last'.req.header)
         IN /\ \A b \in DOMAIN rateMap \ {a} :
                 b \in DOMAIN rateMap' /\ rateMap'[b] = rateMap[b]
            /\ DOMAIN rateMap' \subseteq DOMAIN rateMap \cup {a}
            /\ IsLocal429(provider, last'.resp) =>
                 a \in DOMAIN monitor /\ monitor[a].admitted >= RATE_LIMIT]_vars

\* One identity has used up its quota and, in that window, another is admitted.
C3_Witness ==
    /\ LastIsPost
    /\ last.rateOk = "true"
    /\ \E a \in DOMAIN rateMap \ {LastIp} :
         /\ rateMap[a].count = RATE_LIMIT
         /\ monitor[a].admitted = RATE_LIMIT
         /\ now <= rateMap[a].resetAt
         /\ monitor[LastIp].start >= monitor[a].start
         /\ monitor[LastIp].admitted = 1

(***************************************************************************)
(* Properties of the handler (under SpecGateway)                           *)
(***************************************************************************)
Has(stages, st) == \E i \in 1..Len(stages) : stages[i] = st

\* C4: when checkRate fails for a POST the response is exactly 429 with the
\* fixed rate-limit message and nothing else is done: no validation, no read of
\* the credential, no upstream call.  A POST is rejected only as the 11th or
\* later of its window; the first 10 go on to validation.
C4_RateLimited429 ==
    LastIsPost =>
      /\ last.rateOk = "false" =>
           /\ last.resp = Error(provider, 429, MsgRate(provider))
           /\ last.stages = <<"rate">>
           /\ last.up = NoUpstream
           /\ monitor[LastIp].admitted = RATE_LIMIT
      /\ last.rateOk # "false" =>
           /\ last.rateOk = "true"
           /\ Has(last.stages, "validate")
           /\ monitor[LastIp].admitted <= RATE_LIMIT
           /\ ~IsLocal429(provider, last.resp)

\* The 11th POST of a window, with a body that would not pass validation, got the 429.
C4_Witness ==
    /\ LastIsPost
    /\ last.rateOk = "false"
    /\ last.resp.status = 429
    /\ monitor[LastIp].admitted = RATE_LIMIT
    /\ validateBody(provider, last.req.body) # Null

\* C5: when validateBody returns a message for an admitted POST the response is
\* 400 with exactly that message, and neither the credential is read nor the
\* upstream called; when it returns null (or is not reached) no 400 is sent.
C5_Validation400 ==
    /\ (LastIsPost /\ last.rateOk = "true") =>
         LET v == validateBody(provider, last.req.body)
         IN /\ last.valMsg = v
            /\ v # Null =>
                 /\ last.resp = Error(provider, 400, v)
                 /\ ~Has(last.stages, "credential")
                 /\ ~Has(last.stages, "fetch")
                 /\ last.up = NoUpstream
            /\ v = Null => last.resp.status # 400
    /\ last.resp.status = 400 =>
         /\ LastIsPost
         /\ last.rateOk = "true"
         /\ last.resp.body = [kind |-> "error",
                              error |-> validateBody(provider, last.req.body)]

\* An admitted POST without a credential configured was refused for its body.
C5_Witness ==
    /\ LastIsPost
    /\ last.rateOk = "true"
    /\ last.resp.status = 400
    /\ last.resp.body.error = MsgLength(provider)
    /\ ~KeyPresent(last.req.apiKey)

\* C8: an admitted, valid POST that finds the credential absent from the
\* environment is answered 500 "Server configuration error." without an upstream
\* call, and the credential is read only after the rate check and the
\* validation have passed.
C8_MissingCredential500 ==
    /\ (LastIsPost /\ last.rateOk = "true"
          /\ validateBody(provider, last.req.body) = Null /\ ~last.req.apiKey.set) =>
         /\ last.resp = Error(provider, 500, "Server configuration error.")
         /\ last.up = NoUpstream
         /\ ~Has(last.stages, "fetch")
    /\ Has(last.stages, "credential") =>
         /\ SubSeq(last.stages, 1, 3) = <<"rate", "validate", "credential">>
         /\ last.rateOk = "true"
         /\ validateBody(provider, last.req.body) = Null

\* An admitted, valid POST met an environment without the credential.
C8_Witness ==
    /\ LastIsPost
    /\ last.rateOk = "true"
    /\ validateBody(provider, last.req.body) = Null
    /\ ~last.req.apiKey.set
    /\ last.resp.status = 500
    /\ last.stages = <<"rate", "validate", "credential">>

\* C9: in both handlers a non-2xx upstream response (received whole) is answered
\* 502 with an error body, except that an upstream 429 is answered 429; an
\* upstream 401 is answered 502.  A non-2xx upstream response never gives a 200.
C9_UpstreamErrorMapping ==
    (last.up.kind = "http" /\ ~IsOk(last.up.status) /\ last.up.readOk) =>
       /\ last.resp.body.kind = "error"
       /\ last.resp.status = (IF last.up.status = 429 THEN 429 ELSE 502)

\* C10: a transport failure of the upstream call (fetch rejects) is answered
\* 502 with an error body, like the other failures of the upstream call.
C10_TransportFailure502 ==
    last.up.kind = "transport" =>
       /\ last.resp.status = 502
       /\ last.resp.body.kind = "error"

(***************************************************************************)
(* Properties of the validator (under SpecValidate)                        *)
(***************************************************************************)
TargetOf(b) == Prop(b, "target")

\* target is a string of at least one character
NonEmptyString(v) == v.t = "string" /\ v.len >= 1

TypeInEnum(b) ==
    \E ty \in {"CODE", "WEB_APP", "NETWORK"} : Prop(b, "targetType") = JsStr(ty)

\* C6: the rules are checked in the order target, length, targetType and the
\* message is that of the first failing rule only; the result is null exactly
\* for a non-empty string target of at most 50,000 characters (50,000 accepted,
\* 50,001 rejected) with a targetType of the enum.
C6_FirstFailingRule ==
    \A i \in {1, 2} : vout[i] # "idle" =>
      LET b == vin[i]
          tg == TargetOf(b)
      IN /\ (vout[i] = Null) =
              (NonEmptyString(tg) /\ tg.len <= 50000 /\ TypeInEnum(b))
         /\ (vout[i] = MsgTarget(provider)) = ~NonEmptyString(tg)
         /\ (vout[i] = MsgLength(provider)) = (NonEmptyString(tg) /\ tg.len > 50000)
         /\ (vout[i] = MsgType(provider)) =
              (NonEmptyString(tg) /\ tg.len <= 50000 /\ ~TypeInEnum(b))

\* A body with a target too long and a targetType outside the enum got the
\* length message, and a target of exactly 50,000 characters was accepted.
C6_Witness ==
    /\ TargetOf(vin[1]) = JsText(50001)
    /\ ~TypeInEnum(vin[1])
    /\ vout[1] = MsgLength(provider)
    /\ TargetOf(vin[2]) = JsText(50000)
    /\ vout[2] = Null

\* The four rejected cases of the claim, by the first rule that fails.
CaseOf(b) ==
    LET tg == TargetOf(b)
    IN IF tg.t = "undefined" THEN "missing target"
       ELSE IF tg.t # "string" THEN "non-string target"
       ELSE IF tg.len = 0 THEN "empty target"
       ELSE IF tg.len > 50000 THEN "target too long"
       ELSE IF ~TypeInEnum(b) THEN "targetType outside the enum"
       ELSE "valid"

FourCases ==
    {"missing target", "non-string target", "target too long", "targetType outside the enum"}

BothValidated == vout[1] # "idle" /\ vout[2] # "idle"

\* C7 as stated: the same case always yields the same message and any two
\* different cases of the four yield different messages.
C7_FourDistinctMessages ==
    (BothValidated /\ CaseOf(vin[1]) \in FourCases /\ CaseOf(vin[2]) \in FourCases) =>
       /\ vout[1] # Null /\ vout[2] # Null
       /\ (CaseOf(vin[1]) = CaseOf(vin[2])) = (vout[1] = vout[2])

\* The cases that share the message of the target rule.
TargetRule == {"missing target", "non-string target"}

\* C7, amended: each of the four cases is rejected with a message fixed by the
\* case; the messages of the three rules (target missing or not a string,
\* target too long, targetType outside the enum) differ from one another, and
\* a missing target and a non-string target get the same message.
C7_ThreeDistinctMessages ==
    (BothValidated /\ CaseOf(vin[1]) \in FourCases /\ CaseOf(vin[2]) \in FourCases) =>
       /\ vout[1] # Null /\ vout[2] # Null
       /\ (vout[1] = vout[2]) =
            \/ CaseOf(vin[1]) = CaseOf(vin[2])
            \/ (CaseOf(vin[1]) \in TargetRule /\ CaseOf(vin[2]) \in TargetRule)

\* A missing target and a non-string target were both rejected, with one message.
C7_Witness ==
    /\ BothValidated
    /\ CaseOf(vin[1]) = "missing target"
    /\ CaseOf(vin[2]) = "non-string target"
    /\ vout[1] = vout[2]
    /\ vout[1] # Null

(***************************************************************************)
(* Properties of the 2xx path (under SpecGateway)                          *)
(***************************************************************************)
\* The upstream answered 2xx and its body was read.
UpstreamOk == last.up.kind = "http" /\ IsOk(last.up.status) /\ last.up.readOk

\* C11: when the upstream answers 2xx and the text does not parse as JSON, the
\* response is 502 with the "malformed results" message and has no findings;
\* no response carries both an error and findings.
C11_Malformed502 ==
    /\ (UpstreamOk /\ last.up.hasText /\ ~last.up.parses) =>
         /\ last.resp.status = 502
         /\ last.resp.body = [kind |-> "error",
                              error |-> "AI engine returned malformed results."]
    /\ "error" \in DOMAIN last.resp.body => "findings" \notin DOMAIN last.resp.body
    /\ "findings" \in DOMAIN last.resp.body => last.resp.status = 200

\* A 2xx upstream answer whose text is not JSON has been answered 502.
C11_Witness ==
    /\ UpstreamOk
    /\ last.up.hasText
    /\ ~last.up.parses
    /\ last.resp.status = 502
    /\ last.resp.body.kind = "error"

\* The findings array of the parsed text, empty when there is none.
UpstreamFindings ==
    IF last.up.hasText /\ last.up.value.t = "object"
         /\ Prop(last.up.value, "findings").t = "array"
    THEN last.up.value.findings.items
    ELSE <<>>

\* C12: whenever the upstream answers 2xx with text that parses as JSON (or
\* with no text), the response is 200 {findings: F}, F a sequence as long as the
\* upstream findings and empty when there are none, for every JSON value.
C12_ParsedGives200 ==
    (UpstreamOk /\ (last.up.hasText => last.up.parses)) =>
       /\ last.resp.status = 200
       /\ last.resp.body.kind = "findings"
       /\ Len(last.resp.body.findings) = Len(UpstreamFindings)

(***************************************************************************)
(* Methods and headers (under SpecGateway)                                 *)
(***************************************************************************)
Handled == last.req.method # "none"

\* C14: OPTIONS is answered 200 with an empty body, any other method but POST
\* 405 with an error body, and only a POST reaches the rate limiter, the
\* validator or the upstream.
C14_MethodHandling ==
    Handled =>
      /\ last.req.method = "OPTIONS" =>
           last.resp.status = 200 /\ last.resp.body = [kind |-> "none"]
      /\ last.req.method \notin {"POST", "OPTIONS"} =>
           /\ last.resp.status = 405
           /\ last.resp.body.kind = "error"
      /\ last.req.method # "POST" =>
           /\ last.stages = <<>>
           /\ last.rateOk = "na"
           /\ last.valMsg = "na"
           /\ last.up = NoUpstream
      /\ last.resp.status = 405 => last.req.method \notin {"POST", "OPTIONS"}

\* A GET of a caller whose quota is used up was answered 405, not 429.
C14_Witness ==
    /\ last.req.method = "GET"
    /\ last.resp.status = 405
    /\ LastIp \in DOMAIN rateMap
    /\ rateMap[LastIp].count = RATE_LIMIT

\* C15: every response, whatever its status, carries the three cross-origin
\* headers: the allowed origin (wildcard or the fixed origin), the methods
\* "POST, OPTIONS" and the headers "Content-Type".
C15_CorsOnEveryResponse ==
    Handled =>
      /\ last.resp.status \in {200, 400, 405, 429, 500, 502}
      /\ last.resp.headers.origin \in {"*", "https://aegis-security-scanner.vercel.app"}
      /\ last.resp.headers.methods = "POST, OPTIONS"
      /\ last.resp.headers.headers = "Content-Type"

\* The pre-flight request was answered, with the headers.
C15_Witness ==
    /\ last.req.method = "OPTIONS"
    /\ last.resp.status = 200
    /\ last.resp.body.kind = "none"
    /\ last.resp.headers.methods = "POST, OPTIONS"

(***************************************************************************)
(* The upstream call (under SpecUpstream)                                  *)
(***************************************************************************)
FixedMessages ==
    {MsgMethod, MsgConfig, MsgAuth, MsgUpstreamRate, MsgUpstream, MsgMalformed, MsgInternal}
    \cup UNION {{MsgRate(p), MsgTarget(p), MsgLength(p), MsgType(p)} : p \in Providers}

\* an outcome without its detail
Redact(up) ==
    IF "errText" \in DOMAIN up THEN [up EXCEPT !.errText = ""]
    ELSE IF "detail" \in DOMAIN up THEN [up EXCEPT !.detail = ""]
    ELSE up

\* The response of a run of the handler from the map m at time t.
RunOf(p, req, m, t, outs) ==
    LET s == HandlerSync(p, req, m, t)
    IN  IF s.done THEN s.resp ELSE HandlerAwait(p, outs).resp

\* the credentials that differ from k in their value only
SameButValue(k) == IF KeyPresent(k) THEN {k2 \in UpstreamKeys : KeyPresent(k2)} ELSE {k}

\* C16: the error string of a 4xx/5xx response is one of the fixed messages,
\* and a second run from the same state that differs from the run taken only in
\* the value of the credential, the upstream error body or the detail of the
\* exception gets the same response.
C16_OpaqueErrors ==
    [][/\ last'.resp.status >= 400 =>
            /\ last'.resp.body.kind = "error"
            /\ last'.resp.body.error \in FixedMessages
       /\ \A k2 \in SameButValue(last'.req.apiKey), outs2 \in UpstreamScripts :
            (last'.up = NoUpstream \/ Redact(outs2[1]) = Redact(last'.up)) =>
               RunOf(provider, [last'.req EXCEPT !.apiKey = k2], rateMap, now, outs2)
                 = last'.resp]_vars

\* An upstream 500 with the second error body, under the second credential,
\* was answered with the generic message.
C16_Witness ==
    /\ last.req.apiKey = Key("k2")
    /\ last.up = HttpErrorText(500, "d2")
    /\ last.resp.status = 502
    /\ last.resp.body = [kind |-> "error", error |-> MsgUpstream]

Failed(up) == up.kind = "transport" \/ (up.kind = "http" /\ ~IsOk(up.status))

\* C17: a request makes at most one upstream call, and a call that failed
\* (transport failure or a status outside 2xx) ends the request with an error
\* response and no second call.
C17_NoRetry ==
    Handled =>
      /\ last.calls <= 1
      /\ last.calls = 1 <=> Has(last.stages, "fetch")
      /\ last.calls = 0 <=> last.up = NoUpstream
      /\ Failed(last.up) =>
           /\ last.calls = 1
           /\ last.resp.status >= 400
           /\ last.resp.body.kind = "error"

\* The call failed while the network would have answered a second call.
C17_Witness ==
    /\ last.up = TransportDetail("d1")
    /\ last.calls = 1
    /\ last.resp.status = 500
    /\ \E outs \in UpstreamScripts : outs[1] = last.up /\ outs[2] = OneFinding

(***************************************************************************)
(* The findings of a 200 response (under SpecScan)                         *)
(***************************************************************************)
GaveFindings == last.resp.status = 200 /\ last.resp.body.kind = "findings"

NoFixRequested ==
    /\ LastIsPost
    /\ Prop(last.req.body, "targetType") = JsStr("CODE")
    /\ Prop(Prop(last.req.body, "settings"), "autoRemediation") = JsBool(FALSE)

\* C13 as stated: with autoRemediation false no finding of the 200 response
\* has a codeFix, whatever the upstream returned.
C13_NoFixInResponse ==
    (NoFixRequested /\ GaveFindings) =>
       \A i \in 1..Len(last.resp.body.findings) :
          last.resp.body.findings[i].codeFix = Undefined

\* C13, amended: every finding of the 200 response has the codeFix of the
\* upstream finding at its position, with autoRemediation false as with any
\* other setting; it is absent when and only when the upstream omitted it.
C13_CodeFixPassedThrough ==
    GaveFindings =>
       /\ Len(last.resp.body.findings) = Len(UpstreamFindings)
       /\ \A i \in 1..Len(UpstreamFindings) :
             last.resp.body.findings[i].codeFix = UpstreamFindings[i].codeFix

\* autoRemediation was false, the upstream returned a codeFix and one without,
\* and the response has both as they came.
C13_Witness ==
    /\ NoFixRequested
    /\ GaveFindings
    /\ UpstreamFindings = <<FixFinding, NoIdFinding>>
    /\ last.resp.body.findings[1].codeFix = JsStr("patch")
    /\ last.resp.body.findings[2].codeFix = Undefined

Digit(d) ==
    CASE d = 0 -> "0" [] d = 1 -> "1" [] d = 2 -> "2" [] d = 3 -> "3" [] d = 4 -> "4"
      [] d = 5 -> "5" [] d = 6 -> "6" [] d = 7 -> "7" [] d = 8 -> "8" [] d = 9 -> "9"

\* "AEGIS-" and the position n in three digits (four from 1000 on)
FallbackId(n) ==
    "AEGIS-" \o (IF n >= 1000 THEN Digit((n \div 1000) % 10) ELSE "")
             \o Digit((n \div 100) % 10) \o Digit((n \div 10) % 10) \o Digit(n % 10)

\* an id is given when it is not absent and not empty
Given(id) == id.t = "string" /\ id.s # ""

\* C20: the finding at position i (from 0) keeps its id when it has one and
\* otherwise gets "AEGIS-" and i+1 in three digits, its position in the whole
\* array; the findings keep their order; three findings without id get
\* AEGIS-001, AEGIS-002, AEGIS-003.
C20_IdentifierAssignment ==
    GaveFindings =>
       /\ Len(last.resp.body.findings) = Len(UpstreamFindings)
       /\ \A i \in 1..Len(UpstreamFindings) :
             LET f == UpstreamFindings[i]
                 g == last.resp.body.findings[i]
             IN  /\ g.id = IF Given(f.id) THEN f.id ELSE JsStr(FallbackId(i))
                 /\ g.title = f.title
                 /\ g.codeFix = f.codeFix
       /\ UpstreamFindings = <<NoIdFinding, NoIdFinding, NoIdFinding>> =>
             [i \in 1..3 |-> last.resp.body.findings[i].id]
               = <<JsStr("AEGIS-001"), JsStr("AEGIS-002"), JsStr("AEGIS-003")>>

\* A finding with an id came first: the two after it are numbered 2 and 3.
C20_Witness ==
    /\ GaveFindings
    /\ UpstreamFindings = <<FixFinding, NoIdFinding, NoIdFinding>>
    /\ [i \in 1..3 |-> last.resp.body.findings[i].id]
         = <<JsStr("X-1"), JsStr("AEGIS-002"), JsStr("AEGIS-003")>>

(***************************************************************************)
(* The frame of a rejection (under Spec)                                   *)
(***************************************************************************)
\* the entry of ip in m makes checkRate reject at time t
Rejecting(m, ip, t) == ip \in DOMAIN m /\ t <= m[ip].resetAt /\ m[ip].count >= RATE_LIMIT

\* C19: checkRate rejects exactly when the identity has an entry whose window
\* has not elapsed and whose count is at least 10, and the rejected call leaves
\* the whole map as it was: count and resetAt of the identity and every other
\* entry, so that the same call made again is rejected on the same map.
C19_RejectionMutatesNothing ==
    [][(now' = now /\ last'.req.method = "POST") =>
         LET ip == ipOf(last'.req.header)
         IN  /\ Rejecting(rateMap, ip, now) <=> last'.rateOk = "false"
             /\ Rejecting(rateMap, ip, now) =>
                  /\ rateMap' = rateMap
                  /\ DOMAIN rateMap' = DOMAIN rateMap
                  /\ \A k \in DOMAIN rateMap : rateMap'[k] = rateMap[k]
                  /\ Rejecting(rateMap', ip, now)]_vars

\* A request was rejected after the clock had moved on inside the window: the
\* entry still has the count 10 and the boundary set when the window began, and
\* the entry of another identity is there as well.
C19_Witness ==
    /\ LastIsPost
    /\ last.rateOk = "false"
    /\ now > monitor[LastIp].start
    /\ rateMap[LastIp] = [count |-> RATE_LIMIT, resetAt |-> monitor[LastIp].start + WINDOW_MS]
    /\ \E k \in DOMAIN rateMap : k # LastIp /\ rateMap[k].count < RATE_LIMIT

(***************************************************************************)
(* Requests in flight at once (under SpecConcurrent)                       *)
(***************************************************************************)
Busy == 1..Len(pending)

\* C18: with requests of one identity suspended at the upstream call, each
\* admission took a count of its own in its window (no two requests in flight
\* hold the same one, and none beyond 10), a request that arrives when the
\* quota is used up is rejected though the others have not finished, and the
\* admissions of a window never exceed 10.
C18_AtomicAdmission ==
    /\ \A ip \in DOMAIN monitor : monitor[ip].admitted <= RATE_LIMIT
    /\ \A i \in Busy : pending[i].ticket \in 1..RATE_LIMIT
    /\ \A i, j \in Busy :
          (i # j /\ pending[i].ip = pending[j].ip /\ pending[i].resetAt = pending[j].resetAt)
             => pending[i].ticket # pending[j].ticket
    /\ \A i \in Busy :
          (pending[i].resetAt = rateMap[pending[i].ip].resetAt)
             => pending[i].ticket <= rateMap[pending[i].ip].count

\* One slot of the quota was left; of two requests then in flight one took it
\* and a third one, arriving before either finished, was rejected.
C18_Witness ==
    /\ Len(pending) = MaxInflight
    /\ \E i, j \in Busy :
          /\ pending[i].ip = pending[j].ip
          /\ pending[i].resetAt = pending[j].resetAt
          /\ pending[i].ticket = RATE_LIMIT - 1
          /\ pending[j].ticket = RATE_LIMIT
    /\ last.rateOk = "false"
    /\ IsLocal429(provider, last.resp)
    /\ \A i \in Busy : last.ip = pending[i].ip

(***************************************************************************)
(* References and cweId of the findings (under SpecRefs)                   *)
(***************************************************************************)
\* the references an upstream finding came with, none when absent or null
RefsIn(i) ==
    LET r == UpstreamFindings[i].references
    IN  IF r.t = "array" THEN r.items ELSE <<>>

RefsOut(i) == last.resp.body.findings[i].references.items

GroundingUrls == last.up.grounding

\* the grounding URL of the finding at position i (from 1)
SelectedUrl(i) == GroundingUrls[((i - 1) % Len(GroundingUrls)) + 1]

Elems(s) == {s[i] : i \in 1..Len(s)}

NoDuplicates(s) == \A i, j \in 1..Len(s) : s[i] = s[j] => i = j

FirstAt(s, x) == SetMin({i \in 1..Len(s) : s[i] = x})

\* out is src without the later occurrences of each element
FirstOccurrences(out, src) ==
    /\ NoDuplicates(out)
    /\ Elems(out) = Elems(src)
    /\ \A i, j \in 1..Len(out) : i < j => FirstAt(src, out[i]) < FirstAt(src, out[j])

Enriched == GaveFindings /\ provider = "gemini" /\ Len(GroundingUrls) >= 1

\* C21 as stated: with k >= 1 grounding URLs the references of finding i are
\* the existing references followed by groundingUrls[i mod k], duplicate-free,
\* and with 2 grounding URLs each finding's references hold exactly one of the
\* two, the one its index selects, once.
C21_ExactlyOneGroundingUrl ==
    Enriched =>
      \A i \in 1..Len(UpstreamFindings) :
         /\ FirstOccurrences(RefsOut(i), RefsIn(i) \o <<SelectedUrl(i)>>)
         /\ Len(GroundingUrls) = 2 =>
              {u \in Elems(GroundingUrls) : u \in Elems(RefsOut(i))} = {SelectedUrl(i)}

\* C21, amended: the references of finding i are the existing references
\* followed by groundingUrls[i mod k], duplicate-free; they hold the URL the
\* index selects exactly once, and another grounding URL only when it was
\* among the existing references.
C21_SelectedUrlOnce ==
    Enriched =>
      /\ Len(last.resp.body.findings) = Len(UpstreamFindings)
      /\ \A i \in 1..Len(UpstreamFindings) :
           /\ FirstOccurrences(RefsOut(i), RefsIn(i) \o <<SelectedUrl(i)>>)
           /\ Cardinality({n \in 1..Len(RefsOut(i)) : RefsOut(i)[n] = SelectedUrl(i)}) = 1
           /\ \A u \in Elems(GroundingUrls) :
                (u \in Elems(RefsOut(i)) /\ u # SelectedUrl(i)) => u \in Elems(RefsIn(i))

\* Five findings and two grounding URLs: one finding came with the URL its
\* index selects and has it once, another came with the other URL and has both.
C21_Witness ==
    /\ Enriched
    /\ GroundingUrls = <<"g1", "g2">>
    /\ Len(UpstreamFindings) = 5
    /\ \E i \in 1..5 :
          RefsIn(i) = <<"g1">> /\ SelectedUrl(i) = "g1" /\ RefsOut(i) = <<"g1">>
    /\ \E i \in 1..5 :
          RefsIn(i) = <<"g2", "r1">> /\ SelectedUrl(i) = "g1"
            /\ RefsOut(i) = <<"g2", "r1", "g1">>

Unenriched == GaveFindings /\ provider = "gemini" /\ GroundingUrls = <<>>

\* C22 as stated: with no grounding URLs the schema-enforced handler returns
\* the references of each finding element for element, and the empty sequence
\* for an absent field.
C22_ReferencesUnchanged ==
    Unenriched => \A i \in 1..Len(UpstreamFindings) : RefsOut(i) = RefsIn(i)

\* C22, amended: with no grounding URLs the references of each finding are the
\* existing ones without later repeats, in their order: the same sequence when
\* nothing repeats, the empty sequence for an absent field.
C22_ReferencesDeduplicated ==
    Unenriched =>
      /\ Len(last.resp.body.findings) = Len(UpstreamFindings)
      /\ \A i \in 1..Len(UpstreamFindings) :
           /\ FirstOccurrences(RefsOut(i), RefsIn(i))
           /\ NoDuplicates(RefsIn(i)) => RefsOut(i) = RefsIn(i)
           /\ UpstreamFindings[i].references.t # "array" => RefsOut(i) = <<>>

\* No grounding URLs: a reference given twice came back once, an absent
\* references field came back as the empty sequence.
C22_Witness ==
    /\ Unenriched
    /\ \E i \in 1..Len(UpstreamFindings) :
          RefsIn(i) = <<"r1", "r1">> /\ RefsOut(i) = <<"r1">>
    /\ \E i \in 1..Len(UpstreamFindings) :
          UpstreamFindings[i].references = Undefined /\ RefsOut(i) = <<>>

\* C23: the instructed-JSON handler returns each finding's references as
\* given, the empty sequence when absent, and its cweId as given, "N/A" when
\* absent; every finding of the response has both, whatever grounding came.
C23_ReferencesAndCweDefaults ==
    (GaveFindings /\ provider = "claude") =>
      /\ Len(last.resp.body.findings) = Len(UpstreamFindings)
      /\ \A i \in 1..Len(UpstreamFindings) :
           LET f == UpstreamFindings[i]
               g == last.resp.body.findings[i]
           IN  /\ g.references.t = "array"
               /\ RefsOut(i) = RefsIn(i)
               /\ g.cweId.t = "string"
               /\ g.cweId = IF f.cweId.t = "string" /\ f.cweId.s # ""
                            THEN f.cweId ELSE JsStr("N/A")

\* A finding with a repeated reference and no cweId kept both references and
\* got "N/A"; one with a cweId kept it.
C23_Witness ==
    /\ GaveFindings
    /\ provider = "claude"
    /\ GroundingUrls # <<>>
    /\ \E i \in 1..Len(UpstreamFindings) :
          /\ RefsIn(i) = <<"r1", "r1">>
          /\ RefsOut(i) = <<"r1", "r1">>
          /\ last.resp.body.findings[i].cweId = JsStr("N/A")
    /\ \E i \in 1..Len(UpstreamFindings) :
          last.resp.body.findings[i].cweId = JsStr("CWE-79")

(***************************************************************************)
(* The frame of the normalisation (under SpecScan)                         *)
(***************************************************************************)
RewrittenFields == {"id", "references", "cweId"}

\* C25: apart from id, references and cweId every field of an upstream
\* finding, codeFix included, is in the 200 response as it came, with
\* autoRemediation false, true or not given.
C25_OtherFieldsCopied ==
    GaveFindings =>
      /\ Len(last.resp.body.findings) = Len(UpstreamFindings)
      /\ \A i \in 1..Len(UpstreamFindings) :
           LET f == UpstreamFindings[i]
               g == last.resp.body.findings[i]
           IN  /\ DOMAIN g = DOMAIN f
               /\ \A k \in DOMAIN f \ RewrittenFields : g[k] = f[k]
      /\ \A b \in ScanBodies :
           LET s == HandlerSync(provider, [last.req EXCEPT !.body = b], EmptyMap, now)
           IN  ~s.done /\ HandlerAwait(provider, <<last.up>>).resp = last.resp

\* autoRemediation was true: a finding got its fallback id while its title
\* and the codeFix and title of its neighbour are as they came.
C25_Witness ==
    /\ GaveFindings
    /\ Prop(Prop(last.req.body, "settings"), "autoRemediation") = JsBool(TRUE)
    /\ UpstreamFindings = <<NoIdFinding, FixFinding>>
    /\ last.resp.body.findings[1].id = JsStr("AEGIS-001")
    /\ last.resp.body.findings[1].title = NoIdFinding.title
    /\ last.resp.body.findings[2].codeFix = JsStr("patch")
    /\ last.resp.body.findings[2].title = JsStr("fix")

(***************************************************************************)
(* Code-fence stripping (under SpecFence)                                  *)
(***************************************************************************)
Cleaned(i) == vout[i] # NotCleaned

\* the text has three backticks in a row somewhere
HasFence(text) == \E i \in 1..(Len(text) - 2) : SubSeq(text, i, i + 2) = Fence

\* C24: cleaning a cleaned text returns it unchanged, a text without fence
\* markers is returned trimmed and otherwise unchanged, and valid JSON inside
\* code-fence markers parses to what the same JSON parses to without them.
C24_FenceStripping ==
    /\ \A i \in {1, 2} : Cleaned(i) =>
          /\ vout[i].again = vout[i].clean
          /\ ~HasFence(vout[i].clean)
          /\ ~HasFence(vin[i]) =>
               /\ vout[i].clean = Trim(vin[i])
               /\ vout[i].parsed = JsonParse(vin[i])
    /\ (Cleaned(1) /\ Cleaned(2) /\ JsonParse(vin[1]).ok) =>
          /\ vout[2].parsed.ok
          /\ vout[2].parsed = vout[1].parsed
          /\ vout[1].parsed = JsonParse(vin[1])

\* The document with one finding, with a space before it, was cleaned and
\* parsed bare and inside ```json ... ``` on lines of their own.
C24_Witness ==
    /\ vin[1] = <<" ", "{", "f", "}">>
    /\ vin[2] = FenceJson \o <<"\n">> \o vin[1] \o <<"\n">> \o Fence
    /\ Cleaned(1) /\ Cleaned(2)
    /\ vout[2].clean = <<"{", "f", "}">>
    /\ vout[2].parsed.value = Object(Array(<<NoIdFinding>>))

(***************************************************************************)
(* The client's enforcement (under SpecClient)                             *)
(***************************************************************************)
Received == IF vin.response.body.kind = "findings" THEN vin.response.body.findings ELSE <<>>

GotFindings ==
    /\ vout # NotScanned
    /\ "failed" \notin DOMAIN vin.response
    /\ vin.response.status = 200
    /\ vin.response.body.kind = "findings"

\* C26: performScan with autoRemediation false returns the findings of the
\* server without their codeFix field, every other field, their order and
\* their number as received; with autoRemediation true it returns them exactly
\* as received.
C26_ClientStripsCodeFix ==
    GotFindings =>
      /\ vout.kind = "result"
      /\ Len(vout.findings) = Len(Received)
      /\ vout.summary.total = Len(Received)
      /\ IF vin.settings.autoRemediation = JsBool(TRUE)
         THEN vout.findings = Received
         ELSE \A i \in 1..Len(Received) :
                /\ "codeFix" \notin DOMAIN vout.findings[i]
                /\ DOMAIN vout.findings[i] = DOMAIN Received[i] \ {"codeFix"}
                /\ \A k \in DOMAIN vout.findings[i] : vout.findings[i][k] = Received[i][k]

\* autoRemediation was false and the server returned a finding with a codeFix
\* after one without: both are back, in order, neither with a codeFix field.
C26_Witness ==
    /\ GotFindings
    /\ vin.settings.autoRemediation = JsBool(FALSE)
    /\ Len(Received) = 2
    /\ Received[1].codeFix = Undefined
    /\ Received[2].codeFix = JsStr("patch")
    /\ vout.kind = "result"
    /\ Len(vout.findings) = 2
    /\ vout.findings[2].title = Received[2].title
    /\ "codeFix" \notin DOMAIN vout.findings[2]

(***************************************************************************)
(* The request builder (under SpecBuild)                                   *)
(***************************************************************************)
Built == vout # NotBuilt /\ "message" \in DOMAIN vout

\* the value of a toggle in the body, "absent" when there are no settings or
\* the field is not there
ToggleGiven(name) ==
    IF vin.settings.t = "object" /\ name \in DOMAIN vin.settings
         /\ vin.settings[name].t # "undefined"
    THEN vin.settings[name]
    ELSE [t |-> "absent"]

ExplicitlyFalse(name) ==
    ToggleGiven(name).t = "boolean" /\ ToggleGiven(name) = JsBool(FALSE)

\* the piece of the message after the AutoRemediation label
WrittenAutoRem ==
    {vout.message[i + 1] : i \in {j \in 1..(Len(vout.message) - 1) : vout.message[j] = AutoRemLabel}}

\* C27: autoRemediation is true unless settings.autoRemediation is the boolean
\* false, and the user message says so in text; deepThinking is true unless it
\* is the boolean false, and the schema-enforced request has the thinking
\* configuration exactly then (the instructed-JSON request never has it).
C27_ToggleDefaults ==
    Built =>
      /\ WrittenAutoRem =
           {JsStr(IF ExplicitlyFalse("autoRemediation") THEN "false" ELSE "true")}
      /\ provider = "gemini" =>
           (vout.thinkingConfig.set <=> ~ExplicitlyFalse("deepThinking"))
      /\ vout.thinkingConfig.set => vout.thinkingConfig.thinkingBudget = 16000
      /\ provider = "claude" => ~vout.thinkingConfig.set

\* autoRemediation came as 0 and deepThinking as null: both count as true.
C27_Witness ==
    /\ Built
    /\ provider = "gemini"
    /\ vin.settings = ScanSettings(JsNum(0), JsNull)
    /\ WrittenAutoRem = {JsStr("true")}
    /\ vout.thinkingConfig.set

HasSearchFirst == \E i \in 1..Len(vout.message) : vout.message[i] = SearchFirst

\* C28: the schema-enforced request has the search tool, and its user message
\* the search-first instruction, exactly when targetType is WEB_APP or NETWORK;
\* for CODE it has neither (and the instructed-JSON request never has either).
C28_SearchUnlessCode ==
    Built =>
      /\ vin.targetType \in {JsStr("CODE"), JsStr("WEB_APP"), JsStr("NETWORK")}
      /\ provider = "gemini" =>
           /\ "googleSearch" \in vout.tools <=> vin.targetType \in {JsStr("WEB_APP"), JsStr("NETWORK")}
           /\ HasSearchFirst <=> vin.targetType \in {JsStr("WEB_APP"), JsStr("NETWORK")}
           /\ vin.targetType = JsStr("CODE") => (vout.tools = {} /\ ~HasSearchFirst)
      /\ provider = "claude" => (vout.tools = {} /\ ~HasSearchFirst)

\* A NETWORK target: the request has the search tool and the instruction.
C28_Witness ==
    /\ Built
    /\ provider = "gemini"
    /\ vin.targetType = JsStr("NETWORK")
    /\ vout.tools = {"googleSearch"}
    /\ vout.message[Len(vout.message)] = SearchFirst

(***************************************************************************)
(* The identity of the caller (under SpecIdentity)                         *)
(***************************************************************************)
\* the identity each header of the model stands for, header by header
IdentityOf(h) ==
    CASE h = NoHeader -> <<"u", "n", "k", "n", "o", "w", "n">>
      [] h = Header(<<>>) -> <<"u", "n", "k", "n", "o", "w", "n">>
      [] h = Header(<<",", "b">>) -> <<"u", "n", "k", "n", "o", "w", "n">>
      [] h = Header(<<" ", ",", "a">>) -> <<"u", "n", "k", "n", "o", "w", "n">>
      [] h = Header(<<"a">>) -> <<"a">>
      [] h = Header(<<" ", "a", " ", ",", "b">>) -> <<"a">>
      [] h = Header(<<"a", ",", "c">>) -> <<"a">>
      [] h = Header(<<"b">>) -> <<"b">>

CountOf(m, ip) == IF ip \in DOMAIN m THEN m[ip].count ELSE 0

\* C29: the identity is the first comma-separated segment of the header,
\* trimmed, and "unknown" when the header is absent or that segment is empty;
\* a request is admitted exactly when fewer than 10 requests of its identity
\* were admitted before, whichever headers they came with, and it counts
\* against its identity alone.
C29_IdentityAndSharedQuota ==
    [][last'.req.method = "POST" =>
         LET id == IdentityOf(last'.req.header)
         IN  /\ last'.ip = id
             /\ (last'.rateOk = "true") <=> (CountOf(rateMap, id) < RATE_LIMIT)
             /\ CountOf(rateMap', id) =
                  CountOf(rateMap, id) + (IF last'.rateOk = "true" THEN 1 ELSE 0)
             /\ DOMAIN rateMap' = DOMAIN rateMap \cup {id}
             /\ \A k \in DOMAIN rateMap \ {id} : rateMap'[k] = rateMap[k]]_vars

\* Only callers without an address came; the one whose header begins with a
\* comma was rejected as the eleventh of them.
C29_Witness ==
    /\ last.req.header = Header(<<",", "b">>)
    /\ last.ip = Unknown
    /\ last.rateOk = "false"
    /\ IsLocal429(provider, last.resp)
    /\ DOMAIN rateMap = {Unknown}
    /\ rateMap[Unknown].count = RATE_LIMIT

(***************************************************************************)
(* The entries of the map (under Spec)                                     *)
(***************************************************************************)
\* C30: every entry of the map has a count from 1 to 10, the map has one
\* entry for an identity that was seen and none for another, no entry is
\* ever removed, and an entry changes only by one more admission in its
\* window or by a new entry taking its place after its window has elapsed.
C30_MapEntries ==
    [][/\ \A k \in DOMAIN rateMap' : rateMap'[k].count \in 1..RATE_LIMIT
       /\ DOMAIN rateMap' \subseteq {Unknown, <<"a">>}
       /\ DOMAIN rateMap \subseteq DOMAIN rateMap'
       /\ \A k \in DOMAIN rateMap :
            rateMap'[k] # rateMap[k] =>
               \/ /\ now <= rateMap[k].resetAt
                  /\ rateMap'[k] = [rateMap[k] EXCEPT !.count = @ + 1]
               \/ /\ now > rateMap[k].resetAt
                  /\ rateMap'[k] = [count |-> 1, resetAt |-> now + WINDOW_MS]]_vars

\* A new entry has taken the place of an elapsed one, while the entry of the
\* other identity, elapsed as well, is still in the map.
C30_Witness ==
    /\ now > WINDOW_MS
    /\ DOMAIN rateMap = {Unknown, <<"a">>}
    /\ \E k \in DOMAIN rateMap :
          /\ rateMap[k] = [count |-> 1, resetAt |-> now + WINDOW_MS]
          /\ monitor[k].resumed
    /\ \E k \in DOMAIN rateMap : rateMap[k].resetAt < now

(***************************************************************************)
(* Requests that fail after the rate check (under SpecQuota)               *)
(***************************************************************************)
\* C31: a POST that passes the rate check takes one unit of its identity's
\* quota whatever happens to it next (400 on validation, 500 on the missing
\* credential, 502 or 429 on a failing upstream, an answer that is not a
\* result), and a POST is rejected with 429 exactly when ten were taken in
\* the window, a valid one after ten failed ones included.
C31_FailedRequestsCount ==
    [][last'.req.method = "POST" =>
         LET ip == ipOf(last'.req.header)
             passes == CountOf(rateMap, ip) < RATE_LIMIT
             valid == validateBody(provider, last'.req.body) = Null
         IN  /\ passes <=> ~IsLocal429(provider, last'.resp)
             /\ passes =>
                  /\ CountOf(rateMap', ip) = CountOf(rateMap, ip) + 1
                  /\ rateMap'[ip].resetAt = now + WINDOW_MS
                  /\ last'.resp.status # 200
                  /\ ~valid => last'.resp.status = 400 /\ last'.calls = 0
                  /\ (valid /\ ~KeyPresent(last'.req.apiKey)) =>
                        last'.resp.status = 500 /\ last'.calls = 0
                  /\ (valid /\ KeyPresent(last'.req.apiKey)) =>
                        last'.resp.status \in {429, 500, 502} /\ last'.calls = 1
             /\ ~passes =>
                  /\ rateMap' = rateMap
                  /\ last'.resp.status = 429
                  /\ last'.calls = 0]_vars

\* Ten POSTs of a caller were let through and every one of them failed; the
\* eleventh, valid and with the credential set, was rejected with 429.
C31_Witness ==
    /\ last.req = Req("POST", Header(<<"a">>), ValidBody, Key("k"))
    /\ IsLocal429(provider, last.resp)
    /\ last.resp.status = 429
    /\ last.calls = 0
    /\ rateMap[LastIp].count = RATE_LIMIT
    /\ monitor[LastIp].admitted = RATE_LIMIT

(***************************************************************************)
(* The other methods and the quota (under SpecGateway)                     *)
(***************************************************************************)
\* what the identity may still have admitted in the window that is open at t
Remaining(m, ip, t) ==
    IF ip \notin DOMAIN m \/ t > m[ip].resetAt THEN RATE_LIMIT
    ELSE IF m[ip].count >= RATE_LIMIT THEN 0 ELSE RATE_LIMIT - m[ip].count

\* C32: an OPTIONS request or any other request that is not a POST leaves
\* the rate-limit map as it was and makes no upstream call, so the number of
\* POSTs its identity can still have admitted in the window is what it was
\* before, and the POST that would have been admitted still is.
C32_OtherMethodsCostNothing ==
    [][last'.req.method # "POST" =>
         LET ip == ipOf(last'.req.header)
         IN  /\ rateMap' = rateMap
             /\ monitor' = monitor
             /\ last'.calls = 0
             /\ last'.up = NoUpstream
             /\ Remaining(rateMap', ip, now) = Remaining(rateMap, ip, now)
             /\ checkRate(rateMap', ip, now) = checkRate(rateMap, ip, now)]_vars

\* A pre-flight request came from a caller with one admission left in the
\* window, and that one is still left.
C32_Witness ==
    /\ last.req.method = "OPTIONS"
    /\ last.resp.status = 200
    /\ ipOf(last.req.header) \in DOMAIN rateMap
    /\ Remaining(rateMap, ipOf(last.req.header), now) = 1
    /\ monitor[ipOf(last.req.header)].admitted = RATE_LIMIT - 1
    /\ checkRate(rateMap, ipOf(last.req.header), now).ok

(***************************************************************************)
(* The window is fixed (under Spec)                                        *)
(***************************************************************************)
\* C33: the window is fixed, not sliding.  While now <= resetAt of an
\* identity no step changes that resetAt; a request of the identity admitted
\* in the window changes its count alone, by +1; a request at now = resetAt
\* is handled in the old window (rejected when the quota is used up); and the
\* window is replaced, by one that ends at now + WINDOW_MS, only when
\* now > resetAt.
C33_FixedWindow ==
    [][/\ \A k \in DOMAIN rateMap :
            now <= rateMap[k].resetAt => rateMap'[k].resetAt = rateMap[k].resetAt
       /\ (now' = now /\ last'.req.method = "POST"
             /\ ipOf(last'.req.header) \in DOMAIN rateMap) =>
            LET ip == ipOf(last'.req.header)
                old == rateMap[ip]
            IN  IF now <= old.resetAt
                THEN /\ last'.rateOk = "true" =>
                          /\ rateMap'[ip].count = old.count + 1
                          /\ rateMap'[ip].resetAt = old.resetAt
                          /\ DOMAIN rateMap'[ip] = {"count", "resetAt"}
                     /\ last'.rateOk = "false" => rateMap'[ip] = old
                     /\ (now = old.resetAt /\ old.count >= RATE_LIMIT) =>
                          last'.rateOk = "false" /\ IsLocal429(provider, last'.resp)
                ELSE /\ last'.rateOk = "true"
                     /\ rateMap'[ip].resetAt = now + WINDOW_MS
                     /\ rateMap'[ip].resetAt > old.resetAt
                     /\ rateMap'[ip].count = 1]_vars

\* A request came at the very millisecond its window ends, with the quota
\* used up, and was rejected; the window still ends at that millisecond.
C33_Witness ==
    /\ LastIsPost
    /\ now > 0
    /\ now = rateMap[LastIp].resetAt
    /\ now = monitor[LastIp].start + WINDOW_MS
    /\ rateMap[LastIp].count = RATE_LIMIT
    /\ last.rateOk = "false"
    /\ IsLocal429(provider, last.resp)
====
